---- MODULE Spec2Model ----
(***************************************************************************)
(* Sensitivity-matrix engine of the leak-localization service:             *)
(*   SensitivityMatrixService.generateMatrix / generateMatrixAsync         *)
(*   EpanetSimulationService.loadNetwork / runBaselineSimulation /         *)
(*   runLeakSimulation / calculateSensitivity / closeProject               *)
(* and its leak services:                                                  *)
(*   LeaksService.detectLeaks / localizeLeak / getLocalizationCandidates / *)
(*   analyzeLeaks, LocalizationService, MassBalanceService,                *)
(*   ReadingsService.createBatchFromAnalysis, SensorsService.create,       *)
(*   NetworkService.findMainlineForNode / getNodeIdsInDma                  *)
(* and the network hierarchy:                                              *)
(*   NetworkService.create / importFromEpanet / createDmasForMainlines,    *)
(*   EpanetParserService.mapToNetworkNodes                                 *)
(* Every `await` of the matrix engine is a suspension point: the code      *)
(* between two awaits is one action.  The leak services suspend between    *)
(* the evaluations of two nodes, between the status check, the             *)
(* localization and the update of a detection, and around the insert of a  *)
(* batch.  Engine and persistence failures are inputs, drawn               *)
(* nondeterministically and counted in `faults`.                           *)
(* The requests of the network hierarchy are made one after the other.     *)
(***************************************************************************)
EXTENDS Integers, FiniteSets, Sequences, TLC

----------------------------------------------------------------------------
(* Bounds of the model *)

\* generate requests and injected failures explored by SpecGen
GenCalls == 3
GenFaults == 0

\* generate requests and injected failures explored by SpecBuild
BuildCalls == 1
BuildFaults == 1

\* generate requests and injected failures explored by SpecOrder
OrderCalls == 2
OrderFaults == 0

\* options.timestamp / analyzeDto.timestamp of every request, in seconds
AnalysisTime == 4000

\* requests and injected failures explored by SpecLeaks
LeakCalls == 1
LeakFaults == 1

\* requests explored by SpecSensors and by SpecSeverity
SensorCalls == 1
SeverityCalls == 1

\* largest flow value of the readings explored by SpecSeverity
MaxFlow == 60

\* generate requests and injected failures explored by SpecStats
StatsCalls == 1
StatsFaults == 1

\* node lines and link lines of the imported .inp file, and import requests,
\* explored by SpecImport
FileNodes == 2
FileLinks == 2
ImportCalls == 1

\* requests to the network service explored by SpecNetwork
NetCalls == 3

\* nodes of the stored hierarchy and requests explored by SpecDma
DmaNodes == 3
DmaCalls == 1

\* concurrent localize requests explored by SpecRace
RaceCalls == 2

\* generate requests and injected failures explored by SpecLoad
LoadCalls == 1
LoadFaults == 3

\* injected failures explored by SpecLimit
LimitFaults == 0

----------------------------------------------------------------------------
(* Program constants *)

LEAK_SIZE == 1
\* a limit that admits one simulation more
CONCURRENCY_LIMIT_PLUS_ONE == 2 * 3
CONCURRENCY_LIMIT == 5
MAX_RETRIES == 3
batchSize == 1000

----------------------------------------------------------------------------
(* The persisted topology the builds read (network nodes and sensors).     *)
(* It is not changed by any operation of the matrix engine.                *)

Networks == {"n1", "n2", "n3", "n4", "n5"}

\* networkNode rows with epanetNodeId != null, in findMany order
CandSeq(n) ==
  CASE n = "n1" -> <<"a", "b">>
    [] n = "n2" -> <<"c">>
    [] n = "n3" -> <<"d">>
    [] n = "n4" -> <<"e">>
    [] n = "n6" -> <<"g1", "g2", "g3", "g4", "g5", "g6">>
    [] OTHER    -> <<>>

Range(s) == {s[i] : i \in DOMAIN s}

Candidates(n) == Range(CandSeq(n))

\* sensor rows: host node, whether the host carries an EPANET id, isActive
SensorRows ==
  { [id |-> "s1", net |-> "n1", node |-> "a", tagged |-> TRUE,  active |-> TRUE],
    [id |-> "s2", net |-> "n1", node |-> "b", tagged |-> TRUE,  active |-> TRUE],
    [id |-> "s3", net |-> "n1", node |-> "u", tagged |-> FALSE, active |-> TRUE],
    [id |-> "s4", net |-> "n1", node |-> "a", tagged |-> TRUE,  active |-> FALSE],
    [id |-> "s5", net |-> "n2", node |-> "c", tagged |-> TRUE,  active |-> TRUE],
    [id |-> "s6", net |-> "n3", node |-> "v", tagged |-> FALSE, active |-> TRUE],
    [id |-> "s7", net |-> "n4", node |-> "e", tagged |-> TRUE,  active |-> FALSE],
    [id |-> "s8", net |-> "n5", node |-> "w", tagged |-> FALSE, active |-> TRUE],
    [id |-> "s10", net |-> "n6", node |-> "g1", tagged |-> TRUE, active |-> TRUE] }

\* the sensor query without the isActive filter
ActiveSensorsUnfiltered(n) == {s \in SensorRows : s.net = n}

\* prisma.sensor.findMany({ networkId, isActive: true })
ActiveSensors(n) == {s \in SensorRows : s.net = n /\ s.active}

\* the sensors a build writes entries for (host node has an EPANET id)
TaggedSensors(n) == {s \in ActiveSensors(n) : s.tagged}

\* sensorEpanetNodeIds
SensorNodeIds(n) == {s.node : s \in TaggedSensors(n)}

\* nodes of the hydraulic model stored for the network
EngineNodes(n) == Candidates(n) \cup SensorNodeIds(n)

\* base demand of a node in the stored .inp file
BaseDemand0(x) == 2

----------------------------------------------------------------------------
(* Generation status object *)

NoStats == -1

NotStarted ==
  [status |-> "not_started", nodesProcessed |-> 0, totalNodes |-> 0,
   percentage |-> 0, totalEntries |-> NoStats]

InProgress0 ==
  [status |-> "in_progress", nodesProcessed |-> 0, totalNodes |-> 0,
   percentage |-> 0, totalEntries |-> NoStats]

ErrorStatus ==
  [status |-> "error", nodesProcessed |-> 0, totalNodes |-> 0,
   percentage |-> 0, totalEntries |-> NoStats]

CompletedStatus(total, entries) ==
  [status |-> "completed", nodesProcessed |-> total, totalNodes |-> total,
   percentage |-> 100, totalEntries |-> entries]

\* the value generateMatrix returns on the matrix-exists path
CompletedResult(entries) ==
  [status |-> "completed", nodesProcessed |-> 0, totalNodes |-> 0,
   percentage |-> 0, totalEntries |-> entries]

\* Math.round((processed / totalNodes) * 100)
Percentage(processed, total) == (200 * processed + total) \div (2 * total)

Min(x, y) == IF x <= y THEN x ELSE y

----------------------------------------------------------------------------
(* Persistence: the sensitivity_matrix table, unique on                    *)
(* (networkId, leakNodeId, sensorId)                                       *)

EntryKey(e) == <<e.net, e.leak, e.sensor>>

\* prisma.sensitivityMatrix.count({ where: { networkId } })
CountEntries(m, n) == Cardinality({e \in m : e.net = n})

\* prisma.sensitivityMatrix.count({ where: {} })
CountAllEntries(m) == Cardinality(m)

\* prisma.sensitivityMatrix.createMany({ data, skipDuplicates: true })
CreateMany(m, data) ==
  m \cup {e \in data : \A x \in m : EntryKey(x) # EntryKey(e)}

\* prisma.sensitivityMatrix.deleteMany({ where: { networkId } })
DeleteMany(m, n) == {e \in m : e.net # n}

----------------------------------------------------------------------------
(* Hydraulic engine (epanet-js Project)                                    *)

\* project.solveH(): the computed demand (NodeProperty.Demand) of a
\* junction is its base demand at the time of the solve
SolveH(bd) == [x \in DOMAIN bd |-> bd[x]]

\* calculateSensitivity(baseline, withLeak, leakSize)
CalculateSensitivity(baseline, withLeak, leakSize) ==
  [x \in DOMAIN baseline |->
     IF leakSize > 0 THEN (withLeak[x] - baseline[x]) \div leakSize ELSE 0]

----------------------------------------------------------------------------
(* Leak detection and localization: program constants                      *)

DEFAULT_THRESHOLD == 5
DEFAULT_TIME_WINDOW == 300
DEFAULT_BASELINE_TIME_WINDOW == 3600
DEFAULT_DETECTION_TIME_WINDOW == 300

----------------------------------------------------------------------------
(* The persisted hierarchy: network_nodes and network_partitions.          *)
(* A node id stands for the row's primary key; NoId is a null reference.   *)

NoId == ""

\* network_nodes rows, in findMany order per network: id, network, nodeType,
\* parentId
NodeSeq(n) ==
  CASE n = "n1" ->
         << [id |-> "u",  net |-> "n1", type |-> "MAINLINE", parent |-> NoId],
            [id |-> "a",  net |-> "n1", type |-> "JUNCTION", parent |-> "u"],
            [id |-> "u2", net |-> "n1", type |-> "MAINLINE", parent |-> NoId],
            [id |-> "b",  net |-> "n1", type |-> "BRANCH",   parent |-> "u2"] >>
    [] n = "n2" ->
         << [id |-> "r",  net |-> "n2", type |-> "MAINLINE",  parent |-> NoId],
            [id |-> "j1", net |-> "n2", type |-> "JUNCTION",  parent |-> "r"],
            [id |-> "j2", net |-> "n2", type |-> "BRANCH",    parent |-> "j1"],
            [id |-> "j3", net |-> "n2", type |-> "BRANCH",    parent |-> "j2"],
            [id |-> "c",  net |-> "n2", type |-> "BRANCH",    parent |-> "j3"],
            [id |-> "h",  net |-> "n2", type |-> "HOUSEHOLD", parent |-> "c"] >>
    [] n = "n3" ->
         << [id |-> "v",  net |-> "n3", type |-> "BRANCH",    parent |-> NoId],
            [id |-> "d",  net |-> "n3", type |-> "HOUSEHOLD", parent |-> "v"] >>
    [] n = "n4" ->
         << [id |-> "e",  net |-> "n4", type |-> "MAINLINE", parent |-> NoId] >>
    [] n = "n5" ->
         << [id |-> "w",  net |-> "n5", type |-> "MAINLINE", parent |-> NoId] >>
    [] OTHER -> << >>

NodeRows == UNION {Range(NodeSeq(n)) : n \in Networks}

NodeIds == {x.id : x \in NodeRows}

\* prisma.networkNode.findUnique({ where: { id } })
NodeRow(id) == CHOOSE x \in NodeRows : x.id = id

ParentOf(id) == IF id \in NodeIds THEN NodeRow(id).parent ELSE NoId

\* the children relation of a node row
ChildrenOf(id) == {x.id : x \in {y \in NodeRows : y.parent = id}}

\* network_partitions rows created by createDmasForMainlines: one per
\* MAINLINE node, mainlineId unique
PartitionRows ==
  {[id |-> "p_" \o x.id, net |-> x.net, mainline |-> x.id] :
     x \in {y \in NodeRows : y.type = "MAINLINE"}}

PartitionIds == {p.id : p \in PartitionRows}

\* prisma.networkPartition.findUnique({ where: { mainlineId } }), and the
\* `partition` relation of a node row
PartitionOfMainline(id) ==
  IF \E p \in PartitionRows : p.mainline = id
    THEN (CHOOSE p \in PartitionRows : p.mainline = id).id
    ELSE NoId

\* the sensors of the leak-detection scenarios: the rows of SensorRows and
\* one flow meter on the second mainline of n1
FlowSensorRows ==
  SensorRows \cup
    {[id |-> "s9", net |-> "n1", node |-> "u2", tagged |-> FALSE,
      active |-> TRUE]}

\* sensors: { where: { isActive: true } } of a node row
ActiveSensorsOn(node) ==
  {s.id : s \in {r \in FlowSensorRows : r.node = node /\ r.active}}

----------------------------------------------------------------------------
(* NetworkService.findMainlineForNode and getNodeIdsInDma                  *)

\* the rows loaded by the nested include: the node, its parent, grandparent
\* and great-grandparent
RECURSIVE LoadedChain(_, _)
LoadedChain(id, levels) ==
  IF id = NoId \/ id \notin NodeIds THEN << >>
  ELSE IF levels = 0 THEN << NodeRow(id) >>
  ELSE << NodeRow(id) >> \o LoadedChain(ParentOf(id), levels - 1)

\* parent / parent / parent of the include clause
IncludeDepth == 3

\* lines 393-402: walk the loaded rows upwards, stop at the first MAINLINE
RECURSIVE FirstMainline(_)
FirstMainline(chain) ==
  IF chain = << >> THEN NoId
  ELSE IF Head(chain).type = "MAINLINE" THEN Head(chain).id
  ELSE FirstMainline(Tail(chain))

findMainlineForNode(nodeId) == FirstMainline(LoadedChain(nodeId, IncludeDepth))

\* lines 425-458: breadth-first search over the children relation
RECURSIVE Bfs(_, _)
Bfs(queue, nodeIds) ==
  IF queue = << >> THEN nodeIds
  ELSE IF Head(queue) \in nodeIds THEN Bfs(Tail(queue), nodeIds)
  ELSE LET kids == {c \in ChildrenOf(Head(queue)) :
                      c \notin nodeIds \cup {Head(queue)}}
           RECURSIVE Enq(_, _)
           Enq(q, rest) ==
             IF rest = {} THEN q
             ELSE LET c == CHOOSE x \in rest : TRUE
                  IN  Enq(Append(q, c), rest \ {c})
       IN  Bfs(Enq(Tail(queue), kids), nodeIds \cup {Head(queue)})

\* getNodeIdsInDma of an existing partition
getNodeIdsInDma(partitionId) ==
  Bfs(<< (CHOOSE p \in PartitionRows : p.id = partitionId).mainline >>, {})

----------------------------------------------------------------------------
(* sensor_readings rows are records [sensor, t, flow, src]; t is in        *)
(* seconds, src is the request that stored the row (0: stored earlier).    *)

RECURSIVE SumFlows(_)
SumFlows(rs) ==
  IF rs = {} THEN 0
  ELSE LET r == CHOOSE x \in rs : TRUE IN r.flow + SumFlows(rs \ {r})

\* readings.reduce((acc, r) => acc + r.flowValue, 0) / readings.length,
\* exact for the flows of the model (see Stored)
Mean(rs) == SumFlows(rs) \div Cardinality(rs)

\* findMany({ sensorId, timestamp: { gte: from, lte: to } })
ReadingsIn(rs, sid, from, to) ==
  {r \in rs : r.sensor = sid /\ from <= r.t /\ r.t <= to}

\* findMany({ sensorId, timestamp: { gte: from, lt: to } })
ReadingsBefore(rs, sid, from, to) ==
  {r \in rs : r.sensor = sid /\ from <= r.t /\ r.t < to}

\* MassBalanceService.getLatestReadingForSensor: findFirst with
\* timestamp <= T ordered by timestamp desc; rows with the same timestamp
\* may come back in either order, so the result is one of LatestFlows
LatestFlows(rs, sid, T) ==
  {r.flow : r \in {x \in rs : /\ x.sensor = sid /\ x.t <= T
                             /\ \A y \in rs :
                                  (y.sensor = sid /\ y.t <= T) => y.t <= x.t}}

\* the sensors whose latest reading is not null
WithReading(rs, S, T) == {sid \in S : LatestFlows(rs, sid, T) # {}}

RECURSIVE SumOver(_, _)
SumOver(f, S) ==
  IF S = {} THEN 0
  ELSE LET x == CHOOSE y \in S : TRUE IN f[x] + SumOver(f, S \ {x})

\* the sensors getInflowForNode and getOutflowForNode sum over
InflowSensors(node) ==
  IF ParentOf(node) = NoId THEN {} ELSE ActiveSensorsOn(ParentOf(node))

OutflowSensors(node) == UNION {ActiveSensorsOn(c) : c \in ChildrenOf(node)}

\* the values findFirst may return for the sensors of a node
LatestPicks(rs, node, T) ==
  LET S == WithReading(rs, InflowSensors(node) \cup OutflowSensors(node), T)
  IN  {f \in [S -> {r.flow : r \in rs}] :
         \A sid \in S : f[sid] \in LatestFlows(rs, sid, T)}

\* calculateMassBalance(nodeId, timestamp).imbalance for one choice of rows
Imbalance(rs, node, T, pick) ==
  SumOver(pick, InflowSensors(node) \cap DOMAIN pick)
    - SumOver(pick, OutflowSensors(node) \cap DOMAIN pick)

\* LeaksService.determineSeverity, written with >= in place of >
determineSeverityInclusive(imbalance) ==
  IF imbalance >= 50 THEN "CRITICAL"
  ELSE IF imbalance >= 20 THEN "HIGH"
  ELSE IF imbalance >= 10 THEN "MEDIUM"
  ELSE "LOW"

\* LeaksService.determineSeverity
determineSeverity(imbalance) ==
  IF imbalance > 50 THEN "CRITICAL"
  ELSE IF imbalance > 20 THEN "HIGH"
  ELSE IF imbalance > 10 THEN "MEDIUM"
  ELSE "LOW"

\* a leak_detections row as detectLeakAtNode creates it (lines 128-140)
NewDetection(node, imbalance, T, threshold, timeWindow, at) ==
  [net |-> NodeRow(node).net, node |-> node,
   partition |-> PartitionOfMainline(node),
   imbalance |-> imbalance, severity |-> determineSeverity(imbalance),
   status |-> "DETECTED", timestamp |-> T, timeWindow |-> timeWindow,
   threshold |-> threshold, detectedAt |-> at,
   localizedNode |-> NoId, score |-> << 0, 1 >>, localizedAt |-> 0]

----------------------------------------------------------------------------
(* LocalizationService                                                     *)

SensorsOfNet(n) == {s.id : s \in {r \in FlowSensorRows : r.net = n /\ r.active}}

\* calculateBaselineReadingsWithWindow: the mean over
\* [T - detectionTimeWindow - baselineWindow, T - detectionTimeWindow) of
\* every active sensor that has a reading there
BaselineMap(rs, n, T, detectionTimeWindow, baselineWindow) ==
  LET end   == T - detectionTimeWindow
      start == end - baselineWindow
      S == {sid \in SensorsOfNet(n) : ReadingsBefore(rs, sid, start, end) # {}}
  IN  [sid \in S |-> Mean(ReadingsBefore(rs, sid, start, end))]

\* getObservedChangesWithWindow: anomaly mean over [T - window, T] minus the
\* baseline, for the sensors that have both
ObservedChanges(rs, n, T, detectionTimeWindow, baseline) ==
  LET start == T - detectionTimeWindow
      S == {sid \in DOMAIN baseline \cap SensorsOfNet(n) :
              ReadingsIn(rs, sid, start, T) # {}}
  IN  [sid \in S |-> Mean(ReadingsIn(rs, sid, start, T)) - baseline[sid]]

\* findMany({ networkId }, distinct leakNodeId), in node order
PotentialNodes(m, n) ==
  SelectSeq(NodeSeq(n), LAMBDA x : \E e \in m : e.net = n /\ e.leak = x.id)

\* sensitivityValue * estimatedLeakSize per sensor of the candidate's rows;
\* `predictedChanges.get(sensorId) || 0` for the others
Predicted(m, n, c, size, sid) ==
  LET rows == {e \in m : e.net = n /\ e.leak = c /\ e.sensor = sid}
  IN  IF rows = {} THEN 0 ELSE (CHOOSE e \in rows : TRUE).val * size

Square(x) == x * x

\* a score is the fraction << numerator, denominator >>
ZeroScore == << 0, 1 >>

ScoreGreater(x, y) == x[1] * y[2] > y[1] * x[2]

ScorePositive(x) == x[1] > 0

\* calculateLocalizationScore, lines 383-476.  With at most two sensors in
\* observedChanges the centred vectors are parallel, so the Pearson
\* coefficient of lines 469-470 is exactly +1 or -1.
calculateLocalizationScore(m, n, c, observed, size) ==
  LET S       == DOMAIN observed
      p(sid)  == Predicted(m, n, c, size, sid)
      used    == {sid \in S : ~(p(sid) = 0 /\ observed[sid] = 0)}
      count   == Cardinality(used)
      ssd     == SumOver([sid \in S |-> Square(observed[sid] - p(sid))], used)
      sumO2   == SumOver([sid \in S |-> Square(observed[sid])], used)
      sumP2   == SumOver([sid \in S |-> Square(p(sid))], used)
      sumO    == SumOver(observed, S)
      sumP    == SumOver([sid \in S |-> p(sid)], S)
      dO(sid) == count * observed[sid] - sumO
      dP(sid) == count * p(sid) - sumP
      cov     == SumOver([sid \in S |-> dO(sid) * dP(sid)], S)
      varO    == SumOver([sid \in S |-> Square(dO(sid))], S)
      varP    == SumOver([sid \in S |-> Square(dP(sid))], S)
      corr    == IF cov > 0 THEN 1 ELSE -1
  IN  IF {e \in m : e.net = n /\ e.leak = c} = {} THEN ZeroScore
      ELSE IF count = 0 THEN ZeroScore
      ELSE IF sumO2 > 0 /\ sumP2 > 0 /\ varO > 0 /\ varP > 0
        THEN << 2 * count + (corr + 1) * (count + ssd), 4 * (count + ssd) >>
        ELSE << 4 * count, 4 * (count + ssd) >>

\* candidateScores.sort((a, b) => b.score - a.score): stable, descending
RECURSIVE SortByScore(_)
SortByScore(cs) ==
  IF cs = << >> THEN << >>
  ELSE LET rest == SortByScore(Tail(cs))
           x    == Head(cs)
           before == SelectSeq(rest, LAMBDA y : ScoreGreater(y.score, x.score))
           after  == SelectSeq(rest, LAMBDA y : ~ScoreGreater(y.score, x.score))
       IN  before \o << x >> \o after

NoLocalization ==
  [ok |-> FALSE, why |-> "none", node |-> NoId, score |-> ZeroScore,
   candidates |-> << >>, baseline |-> << >>]

\* localizeLeakForDetection without the DMA restriction of lines 98-111
LocalizeUnrestricted(m, rs, d, baselineTimeWindow) ==
  LET window   == IF d.timeWindow = 0 THEN DEFAULT_DETECTION_TIME_WINDOW
                  ELSE d.timeWindow
      baseline == BaselineMap(rs, d.net, d.timestamp, window,
                              baselineTimeWindow)
      observed == ObservedChanges(rs, d.net, d.timestamp, window, baseline)
      nodes    == PotentialNodes(m, d.net)
      scored   == SortByScore(
                    [i \in 1..Len(nodes) |->
                       [nodeId |-> nodes[i].id,
                        score |-> calculateLocalizationScore(
                                    m, d.net, nodes[i].id, observed,
                                    d.imbalance)]])
      fail(why) == [NoLocalization EXCEPT !.why = why, !.baseline = baseline]
  IN  IF CountEntries(m, d.net) = 0 THEN
        [NoLocalization EXCEPT !.why = "no matrix"]
      ELSE IF DOMAIN observed = {} THEN fail("no readings")
      ELSE IF scored = << >> THEN fail("no score")
      ELSE IF ~ScorePositive(scored[1].score) THEN fail("no score")
      ELSE [ok |-> TRUE, why |-> "none", node |-> scored[1].nodeId,
            score |-> scored[1].score,
            candidates |-> [i \in 1..Len(scored) |-> scored[i].nodeId],
            baseline |-> baseline]

\* LocalizationService.localizeLeakForDetection(detection, baselineTimeWindow)
localizeLeakForDetection(m, rs, d, baselineTimeWindow) ==
  LET window   == IF d.timeWindow = 0 THEN DEFAULT_DETECTION_TIME_WINDOW
                  ELSE d.timeWindow
      baseline == BaselineMap(rs, d.net, d.timestamp, window,
                              baselineTimeWindow)
      observed == ObservedChanges(rs, d.net, d.timestamp, window, baseline)
      all      == PotentialNodes(m, d.net)
      nodes    == IF d.partition = NoId THEN all
                  ELSE SelectSeq(all, LAMBDA x :
                         x.id \in getNodeIdsInDma(d.partition))
      scored   == SortByScore(
                    [i \in 1..Len(nodes) |->
                       [nodeId |-> nodes[i].id,
                        score |-> calculateLocalizationScore(
                                    m, d.net, nodes[i].id, observed,
                                    d.imbalance)]])
      fail(why) == [NoLocalization EXCEPT !.why = why, !.baseline = baseline]
  IN  IF CountEntries(m, d.net) = 0 THEN
        [NoLocalization EXCEPT !.why = "no matrix"]
      ELSE IF DOMAIN observed = {} THEN fail("no readings")
      ELSE IF all = << >> THEN fail("no nodes")
      ELSE IF nodes = << >> THEN fail("no node in dma")
      ELSE IF ~ScorePositive(scored[1].score) THEN fail("no score")
      ELSE [ok |-> TRUE, why |-> "none", node |-> scored[1].nodeId,
            score |-> scored[1].score,
            candidates |-> [i \in 1..Len(scored) |-> scored[i].nodeId],
            baseline |-> baseline]

----------------------------------------------------------------------------
VARIABLES
  matrix,            \* rows of the sensitivity_matrix table
  generationStatus,  \* SensitivityMatrixService.generationStatus
  call,              \* generateMatrix invocations: position, arguments, result
  build,             \* generateMatrixAsync invocations, one per starting call
  handle,            \* EPANET projects created by loadNetwork, per build/attempt
  faults,            \* number of engine / persistence failures injected so far
  scope,             \* what the environment may do: networks requested,
                     \* number of requests, number of failures
  readings,          \* rows of the sensor_readings table
  detections,        \* rows of the leak_detections table, in creation order
  request,           \* requests to the leak and sensor services
  network,           \* ids of the rows of the networks table
  networkNode,       \* rows of the network_nodes table written by create
                     \* and by importFromEpanet
  networkPartition,  \* rows of the network_partitions table
  netRequest         \* requests to the network service

vars == <<matrix, generationStatus, call, build, handle, faults, scope,
          readings, detections, request, network, networkNode,
          networkPartition, netRequest>>

leakVars == <<readings, detections, request>>

netVars == <<network, networkNode, networkPartition, netRequest>>

Calls == 1..scope.calls

Requests == 1..scope.calls

NoResult == [status |-> "none", nodesProcessed |-> 0, totalNodes |-> 0,
             percentage |-> 0, totalEntries |-> NoStats]

IdleCall ==
  [pc |-> "idle", force |-> FALSE, net |-> "n1", exists |-> FALSE,
   seenAtCall |-> "none", seenAtReturn |-> "none", result |-> NoResult,
   threw |-> FALSE]

NoBuild ==
  [pc |-> "none", net |-> "n1", force |-> FALSE, project |-> 0, attempt |-> 0,
   sleeps |-> 0, baseline |-> <<>>, entries |-> {}, batchNo |-> 0,
   worker |-> <<>>, orig |-> <<>>, solveOk |-> <<>>, bd |-> <<>>,
   solved |-> <<>>, fatal |-> FALSE]

NoHandle == [st |-> "none", closes |-> 0]

\* the rows a completed build of network n1 leaves in the table when both
\* tasks of its batch were started before either read its results
PriorMatrix ==
  {[net |-> "n1", leak |-> c, sensor |-> sid, val |-> 1] :
     c \in {"a", "b"}, sid \in {"s1", "s2"}}

IdleRequest ==
  [op |-> "none", pc |-> "idle", node |-> NoId, T |-> 0, threshold |-> 0,
   timeWindow |-> 0, det |-> 0, window |-> 0, batch |-> << >>,
   todo |-> << >>, found |-> << >>, at |-> 0, seen |-> "none",
   loc |-> NoLocalization, report |-> << >>, localized |-> 0,
   breakdown |-> [s \in {"LOW", "MEDIUM", "HIGH", "CRITICAL"} |-> 0],
   stored |-> 0, err |-> "none", why |-> "none", missing |-> {},
   label |-> NoId, partition |-> NoId, mainline |-> NoId,
   created |-> << >>]

\* a request to the network service that has not been made
IdleNetRequest ==
  [op |-> "none", pc |-> "idle", net |-> 0, err |-> "none",
   todo |-> << >>, created |-> << >>, partition |-> << >>,
   nodeIds |-> {}, visits |-> << >>]

\* no network has been imported, no request to the network service is made
NetIdle(sc) ==
  /\ network = {}
  /\ networkNode = {}
  /\ networkPartition = {}
  /\ netRequest = [k \in 1..sc.calls |-> IdleNetRequest]

\* the fields of the matrix service after construction; the matrix table is
\* empty or holds the rows persisted before the process was started
MatrixIdle(sc, m0) ==
  /\ scope = sc
  /\ matrix = m0
  /\ generationStatus = NotStarted
  /\ call = [k \in 1..sc.calls |-> IdleCall]
  /\ build = [k \in 1..sc.calls |-> NoBuild]
  /\ handle = [k \in 1..sc.calls |-> [a \in 1..MAX_RETRIES |-> NoHandle]]
  /\ faults = 0

\* the matrix service after construction, before any request to the network
\* service
MatrixInit(sc, m0) ==
  /\ NetIdle(sc)
  /\ MatrixIdle(sc, m0)

\* the state after construction of the services, no reading stored yet
InitWith(sc, m0) ==
  /\ MatrixInit(sc, m0)
  /\ readings = {}
  /\ detections = << >>
  /\ request = [k \in 1..sc.calls |-> IdleRequest]

\* NoNetworkId is a request without networkId
NoNetworkId == ""

InitGen ==
  InitWith([nets |-> {NoNetworkId, "n2", "n4"}, calls |-> GenCalls,
            faults |-> GenFaults], {})

InitBuild ==
  \E m0 \in {{}, PriorMatrix} :
     InitWith([nets |-> {"n1", "n3"}, calls |-> BuildCalls,
               faults |-> BuildFaults], m0)

InitOrder ==
  InitWith([nets |-> {"n1", "n4", "n5"}, calls |-> OrderCalls,
            faults |-> OrderFaults], {})

\* the rows a completed build of network n2 leaves in the table
OtherMatrix == {[net |-> "n2", leak |-> "c", sensor |-> "s5", val |-> 1]}

\* a build of n1 beside the stored matrix of n2
InitStats ==
  \E m0 \in {OtherMatrix, OtherMatrix \cup PriorMatrix} :
     InitWith([nets |-> {"n1"}, calls |-> StatsCalls, faults |-> StatsFaults],
              m0)

\* builds of n6, which has more candidates than the limiter admits
InitLimit ==
  InitWith([nets |-> {"n2", "n6"}, calls |-> 1,
            faults |-> LimitFaults], OtherMatrix)

\* builds whose load attempts may all fail
InitLoad ==
  \E m0 \in {{}, PriorMatrix} :
     InitWith([nets |-> {"n1", "n3"}, calls |-> LoadCalls,
               faults |-> LoadFaults], m0)

CanFail == faults < scope.faults

----------------------------------------------------------------------------
(* generateMatrix(force, networkId)                                        *)

\* lines 74-83: the call is made; without a networkId it throws, otherwise
\* the matrix-exists count is taken
GenerateCall(k, force, n) ==
  /\ call[k].pc = "idle"
  /\ \A j \in Calls : j < k => call[j].pc # "idle"
  /\ call' = [call EXCEPT ![k] =
       IF n = NoNetworkId
         THEN [@ EXCEPT !.pc = "done", !.force = force, !.net = n,
                        !.threw = TRUE,
                        !.seenAtCall = generationStatus.status,
                        !.seenAtReturn = generationStatus.status]
         ELSE [@ EXCEPT !.pc = "exists", !.force = force, !.net = n,
                        !.exists = (CountEntries(matrix, n) > 0),
                        !.seenAtCall = generationStatus.status]]
  /\ UNCHANGED <<matrix, generationStatus, build, handle, faults, scope>>

\* lines 128-139: the synchronous start of generateMatrixAsync
StartBuild(k) ==
  [NoBuild EXCEPT !.pc = "prepare", !.net = call[k].net,
                  !.force = call[k].force]

\* lines 93-113: return the live status of a running build, or start one
StartOrJoin(k) ==
  IF generationStatus.status = "in_progress"
    THEN /\ call' = [call EXCEPT ![k] =
              [@ EXCEPT !.pc = "done", !.result = generationStatus,
                        !.seenAtReturn = generationStatus.status]]
         /\ UNCHANGED <<generationStatus, build>>
    ELSE /\ generationStatus' = InProgress0
         /\ build' = [build EXCEPT ![k] = StartBuild(k)]
         /\ call' = [call EXCEPT ![k] =
              [@ EXCEPT !.pc = "done", !.result = InProgress0,
                        !.seenAtReturn = generationStatus.status]]

\* GenerateResume without the early return of lines 85-91
GenerateResumeAlwaysBuilds(k) ==
  /\ call[k].pc = "exists"
  /\ StartOrJoin(k)
  /\ UNCHANGED <<matrix, handle, faults, scope>>

\* lines 85-113: the continuation after `await checkMatrixExists`
GenerateResume(k) ==
  /\ call[k].pc = "exists"
  /\ IF call[k].exists /\ ~call[k].force
       THEN /\ call' = [call EXCEPT ![k].pc = "stats"]
            /\ UNCHANGED <<generationStatus, build>>
       ELSE StartOrJoin(k)
  /\ UNCHANGED <<matrix, handle, faults, scope>>

\* lines 86-90: the continuation after `await getMatrixStats(networkId)`
GenerateStats(k) ==
  /\ call[k].pc = "stats"
  /\ call' = [call EXCEPT ![k] =
       [@ EXCEPT !.pc = "done",
                 !.result = CompletedResult(CountEntries(matrix, call[k].net)),
                 !.seenAtReturn = generationStatus.status]]
  /\ UNCHANGED <<matrix, generationStatus, build, handle, faults, scope>>

----------------------------------------------------------------------------
(* generateMatrixAsync(force, networkId)                                   *)

\* lines 361-387: the catch block: close the project if one is set, record
\* the error, rethrow (the rejection handler of generateMatrix is pending)
CatchBlock(k, b, h) ==
  /\ handle' = IF b.project # 0
                 THEN [h EXCEPT ![k][b.project].closes = @ + 1]
                 ELSE h
  /\ build' = [build EXCEPT ![k] = [b EXCEPT !.pc = "rejected", !.fatal = TRUE]]
  /\ generationStatus' = ErrorStatus

\* lines 193-203: the two emptiness checks on the query results
SetupValid(n) == Len(CandSeq(n)) # 0 /\ ActiveSensors(n) # {}

\* lines 146-210: network lookup, deleteMany when forced, node and sensor
\* queries, validation
BuildPrepare(k, dbFails) ==
  /\ build[k].pc = "prepare"
  /\ dbFails => CanFail
  /\ faults' = IF dbFails THEN faults + 1 ELSE faults
  /\ IF dbFails
       THEN /\ CatchBlock(k, build[k], handle)
            /\ UNCHANGED matrix
       ELSE /\ matrix' = IF build[k].force
                           THEN DeleteMany(matrix, build[k].net) ELSE matrix
            /\ IF SetupValid(build[k].net)
                 THEN /\ build' = [build EXCEPT ![k].pc = "load"]
                      /\ UNCHANGED <<handle, generationStatus>>
                 ELSE CatchBlock(k, build[k], handle)
  /\ UNCHANGED <<call, scope>>

\* lines 255-258: the candidates of batch number i (0-based)
Batch(n, i) ==
  {CandSeq(n)[j] : j \in {j \in 1..Len(CandSeq(n)) :
      j > i * CONCURRENCY_LIMIT /\ j <= (i + 1) * CONCURRENCY_LIMIT}}

NumBatches(n) ==
  (Len(CandSeq(n)) + CONCURRENCY_LIMIT - 1) \div CONCURRENCY_LIMIT

\* worker states of the candidates when batch i is handed to the limiter
LaunchBatch(w, n, i) ==
  [c \in DOMAIN w |-> IF c \in Batch(n, i) THEN "queued" ELSE w[c]]

\* LoadAttempt with the delay of lines 73-75 taken after every failure
LoadAttemptSleepsAfterLast(k, o) ==
  LET b == build[k]
      a == b.attempt + 1
      opened == [handle EXCEPT ![k][a] = [st |-> "open", closes |-> 0]]
      leaked == [handle EXCEPT ![k][a] = [st |-> "created", closes |-> 0]]
      nodes == EngineNodes(b.net)
  IN
  /\ b.pc = "load"
  /\ o # "ok" => CanFail
  /\ faults' = IF o # "ok" THEN faults + 1 ELSE faults
  /\ IF o = "ok"
       THEN LET b1 == [b EXCEPT !.attempt = a, !.project = a,
                                !.bd = [x \in nodes |-> BaseDemand0(x)],
                                !.solved = [x \in nodes |-> 0]]
            IN IF SensorNodeIds(b.net) = {}
                 THEN CatchBlock(k, b1, opened)
                 ELSE /\ build' = [build EXCEPT ![k] =
                                     [b1 EXCEPT !.pc = "baseline"]]
                      /\ handle' = opened
                      /\ UNCHANGED generationStatus
       ELSE LET h1 == IF o = "created" THEN leaked ELSE handle
            IN IF a < MAX_RETRIES
                 THEN /\ build' = [build EXCEPT ![k] =
                         [b EXCEPT !.attempt = a, !.sleeps = @ + 1]]
                      /\ handle' = h1
                      /\ UNCHANGED generationStatus
                 ELSE CatchBlock(k, [b EXCEPT !.attempt = a,
                                              !.sleeps = @ + 1], h1)
  /\ UNCHANGED <<matrix, call, scope>>

\* loadNetwork, lines 27-86, one attempt per step; on success the
\* continuation of generateMatrixAsync, lines 214-226
\*   o = "ok"       the attempt opens a project
\*   o = "early"    the attempt fails before a Project is constructed
\*   o = "created"  the attempt fails after `new Project(workspace)`
LoadAttempt(k, o) ==
  LET b == build[k]
      a == b.attempt + 1
      opened == [handle EXCEPT ![k][a] = [st |-> "open", closes |-> 0]]
      leaked == [handle EXCEPT ![k][a] = [st |-> "created", closes |-> 0]]
      nodes == EngineNodes(b.net)
  IN
  /\ b.pc = "load"
  /\ o # "ok" => CanFail
  /\ faults' = IF o # "ok" THEN faults + 1 ELSE faults
  /\ IF o = "ok"
       THEN LET b1 == [b EXCEPT !.attempt = a, !.project = a,
                                !.bd = [x \in nodes |-> BaseDemand0(x)],
                                !.solved = [x \in nodes |-> 0]]
            IN IF SensorNodeIds(b.net) = {}
                 THEN CatchBlock(k, b1, opened)
                 ELSE /\ build' = [build EXCEPT ![k] =
                                     [b1 EXCEPT !.pc = "baseline"]]
                      /\ handle' = opened
                      /\ UNCHANGED generationStatus
       ELSE LET h1 == IF o = "created" THEN leaked ELSE handle
            IN IF a < MAX_RETRIES
                 THEN /\ build' = [build EXCEPT ![k] =
                         [b EXCEPT !.attempt = a, !.sleeps = @ + 1]]
                      /\ handle' = h1
                      /\ UNCHANGED generationStatus
                 ELSE CatchBlock(k, [b EXCEPT !.attempt = a], h1)
  /\ UNCHANGED <<matrix, call, scope>>

\* runBaselineSimulation, lines 91-181, and lines 235-258 of the build
BaselineSimulation(k, fails) ==
  LET b == build[k]
      n == b.net
      solved == SolveH(b.bd)
  IN
  /\ b.pc = "baseline"
  /\ fails => CanFail
  /\ faults' = IF fails THEN faults + 1 ELSE faults
  /\ IF fails
       THEN CatchBlock(k, b, handle)
       ELSE /\ build' = [build EXCEPT ![k] =
                 [b EXCEPT !.pc = "batch",
                           !.solved = solved,
                           !.baseline = [x \in SensorNodeIds(n) |-> solved[x]],
                           !.batchNo = 0,
                           !.worker = LaunchBatch(
                               [c \in Candidates(n) |-> "waiting"], n, 0),
                           !.orig = [c \in Candidates(n) |-> 0],
                           !.solveOk = [c \in Candidates(n) |-> FALSE]]]
            /\ generationStatus' =
                 [generationStatus EXCEPT !.nodesProcessed = 0,
                                          !.totalNodes = Len(CandSeq(n)),
                                          !.percentage = 0]
            /\ UNCHANGED handle
  /\ UNCHANGED <<matrix, call, scope>>

InFlight(b) == {c \in DOMAIN b.worker : b.worker[c] = "inflight"}

\* runLeakSimulation, lines 192-241: up to the await of the solve.
\*   f = "ok"       base demand read, leak added, solveH succeeded
\*   f = "index"    getNodeIndex fails or finds no node (nodeIndex stays <= 0)
\*   f = "getBase"  getNodeValue(BaseDemand) throws
\*   f = "setLeak"  setNodeValue(BaseDemand, original + leak) throws
\*   f = "solve"    solveH throws; the rejection is seen after the await
\* A synchronous throw runs the catch and the finally block (lines 278-301)
\* in the same step; originalBaseDemand is 0 until the read has succeeded.
LeakSimulationStart(b, c, f) ==
  CASE f = "index" ->
         [b EXCEPT !.worker[c] = "failed"]
    [] f = "getBase" ->
         [b EXCEPT !.worker[c] = "failed", !.bd[c] = b.orig[c]]
    [] f = "setLeak" ->
         [b EXCEPT !.worker[c] = "failed", !.orig[c] = b.bd[c],
                   !.bd[c] = b.bd[c]]
    [] f = "solve" ->
         [b EXCEPT !.worker[c] = "inflight", !.orig[c] = b.bd[c],
                   !.bd[c] = b.bd[c] + LEAK_SIZE, !.solveOk[c] = FALSE]
    [] OTHER ->
         [b EXCEPT !.worker[c] = "inflight", !.orig[c] = b.bd[c],
                   !.bd[c] = b.bd[c] + LEAK_SIZE, !.solveOk[c] = TRUE,
                   !.solved = SolveH([b.bd EXCEPT ![c] = @ + LEAK_SIZE])]

\* lines 273-278: the project a worker hands to runLeakSimulation
WorkerHandle(k, c) == <<k, build[k].project>>

\* WorkerStart without the try/catch of lines 270-307: a synchronous
\* failure of a candidate reaches the catch block of the build
WorkerStartPropagates(k, c, f) ==
  LET b == build[k] IN
  /\ b.pc = "batch"
  /\ c \in DOMAIN b.worker
  /\ b.worker[c] = "queued"
  /\ Cardinality(InFlight(b)) < CONCURRENCY_LIMIT
  /\ f # "ok" => CanFail
  /\ faults' = IF f # "ok" THEN faults + 1 ELSE faults
  /\ IF f \in {"index", "getBase", "setLeak"}
       THEN CatchBlock(k, LeakSimulationStart(b, c, f), handle)
       ELSE /\ build' = [build EXCEPT ![k] = LeakSimulationStart(b, c, f)]
            /\ UNCHANGED <<generationStatus, handle>>
  /\ UNCHANGED <<matrix, call, scope>>

\* the limiter starts the task of candidate c (lines 261-278); a failure of
\* runLeakSimulation is caught and logged by the task (lines 301-307)
WorkerStart(k, c, f) ==
  LET b == build[k] IN
  /\ b.pc = "batch"
  /\ c \in DOMAIN b.worker
  /\ b.worker[c] = "queued"
  /\ Cardinality(InFlight(b)) < CONCURRENCY_LIMIT
  /\ f # "ok" => CanFail
  /\ faults' = IF f # "ok" THEN faults + 1 ELSE faults
  /\ build' = [build EXCEPT ![k] = LeakSimulationStart(b, c, f)]
  /\ UNCHANGED <<matrix, generationStatus, call, handle, scope>>

StartFaults == {"ok", "index", "getBase", "setLeak", "solve"}

\* lines 280-300: the entries a worker pushes for candidate c
WorkerEntries(n, c, sensitivity) ==
  {[net |-> n, leak |-> c, sensor |-> s.id, val |-> sensitivity[s.node]] :
     s \in TaggedSensors(n)}

\* runLeakSimulation, lines 243-301, after the await of the solve, and the
\* worker body, lines 280-307.
\*   o = "ok"        every read succeeds, the base demand is restored
\*   o = "restore"   the restoring setNodeValue throws (logged, line 295)
\*   o = a node id   the demand read of that sensor node fails (result 0)
WorkerFinish(k, c, o) ==
  LET b == build[k]
      n == b.net
      restored == IF o = "restore" THEN b.bd ELSE [b.bd EXCEPT ![c] = b.orig[c]]
      results == [x \in SensorNodeIds(n) |-> IF x = o THEN 0 ELSE b.solved[x]]
      sensitivity == CalculateSensitivity(b.baseline, results, LEAK_SIZE)
  IN
  /\ b.pc = "batch"
  /\ c \in DOMAIN b.worker
  /\ b.worker[c] = "inflight"
  /\ o # "ok" => CanFail
  /\ faults' = IF o # "ok" THEN faults + 1 ELSE faults
  /\ build' = [build EXCEPT ![k] =
       IF b.solveOk[c]
         THEN [b EXCEPT !.worker[c] = "ok", !.bd = restored,
                        !.entries = @ \cup WorkerEntries(n, c, sensitivity)]
         ELSE [b EXCEPT !.worker[c] = "failed", !.bd = restored]]
  /\ UNCHANGED <<matrix, generationStatus, call, handle, scope>>

FinishFaults(n) == {"ok", "restore"} \cup SensorNodeIds(n)

\* lines 311-332: after Promise.all of a batch: progress, batched insert
BatchDone(k, dbFails) ==
  LET b == build[k]
      n == b.net
      total == Len(CandSeq(n))
      processed == Min(b.batchNo * CONCURRENCY_LIMIT
                         + Cardinality(Batch(n, b.batchNo)), total)
      flush == Cardinality(b.entries) >= batchSize
      b1 == [b EXCEPT !.entries = IF flush THEN {} ELSE @]
      status1 == [generationStatus EXCEPT
                    !.nodesProcessed = processed, !.totalNodes = total,
                    !.percentage = Percentage(processed, total)]
  IN
  /\ b.pc = "batch"
  /\ \A c \in Batch(n, b.batchNo) : b.worker[c] \in {"ok", "failed"}
  /\ dbFails => (CanFail /\ flush)
  /\ faults' = IF dbFails THEN faults + 1 ELSE faults
  /\ IF dbFails
       THEN /\ CatchBlock(k, b, handle)
            /\ UNCHANGED matrix
       ELSE /\ matrix' = IF flush THEN CreateMany(matrix, b.entries) ELSE matrix
            /\ generationStatus' = status1
            /\ build' = [build EXCEPT ![k] =
                 IF b.batchNo + 1 < NumBatches(n)
                   THEN [b1 EXCEPT !.batchNo = @ + 1,
                           !.worker = LaunchBatch(b.worker, n, b.batchNo + 1)]
                   ELSE [b1 EXCEPT !.pc = "persist"]]
            /\ UNCHANGED handle
  /\ UNCHANGED <<call, scope>>

\* lines 334-345: insert the remaining entries, then close the project
BuildPersist(k, dbFails) ==
  LET b == build[k] IN
  /\ b.pc = "persist"
  /\ dbFails => (CanFail /\ b.entries # {})
  /\ faults' = IF dbFails THEN faults + 1 ELSE faults
  /\ IF dbFails
       THEN /\ CatchBlock(k, b, handle)
            /\ UNCHANGED matrix
       ELSE /\ matrix' = CreateMany(matrix, b.entries)
            /\ handle' = [handle EXCEPT ![k][b.project].closes = @ + 1]
            /\ build' = [build EXCEPT ![k].pc = "stats"]
            /\ UNCHANGED generationStatus
  /\ UNCHANGED <<call, scope>>

\* lines 347-356: the unscoped stats query and the completed status
BuildStats(k, dbFails) ==
  LET b == build[k] IN
  /\ b.pc = "stats"
  /\ dbFails => CanFail
  /\ faults' = IF dbFails THEN faults + 1 ELSE faults
  /\ IF dbFails
       THEN CatchBlock(k, b, handle)
       ELSE /\ generationStatus' =
                 CompletedStatus(Len(CandSeq(b.net)), CountAllEntries(matrix))
            /\ build' = [build EXCEPT ![k].pc = "completed"]
            /\ UNCHANGED handle
  /\ UNCHANGED <<matrix, call, scope>>

\* generateMatrix, lines 99-104: the rejection handler attached to the build
RejectionHandler(k) ==
  /\ build[k].pc = "rejected"
  /\ generationStatus' = ErrorStatus
  /\ build' = [build EXCEPT ![k].pc = "failed"]
  /\ UNCHANGED <<matrix, call, handle, faults, scope>>

matrixVars == <<matrix, generationStatus, call, build, handle, scope>>

----------------------------------------------------------------------------
(* Requests of the leak detection and localization services                *)
(*   LeaksService.detectLeaks / detectLeakAtNode / detectLeaksInDma        *)
(*   LeaksService.localizeLeak / getLocalizationCandidates / analyzeLeaks  *)
(*   ReadingsService.createBatchFromAnalysis, SensorsService.create        *)
(* The queries of one mass balance and of one localization are taken at    *)
(* one instant; requests interleave between these steps.                   *)

\* a request is started after the requests before it
Startable(k) ==
  /\ request[k].pc = "idle"
  /\ \A j \in Requests : j < k => request[j].pc # "idle"

\* the nodes of the database in findMany order
AllNodeSeq ==
  LET RECURSIVE Cat(_)
      Cat(ns) == IF ns = << >> THEN << >>
                 ELSE (IF Head(ns) \in scope.nets THEN NodeSeq(Head(ns))
                       ELSE << >>) \o Cat(Tail(ns))
  IN  Cat(<< "n1", "n2", "n3", "n4", "n5" >>)

\* findMany({ nodeType: { in: [JUNCTION, BRANCH] } }), lines 60-71
ScanNodes ==
  LET js == SelectSeq(AllNodeSeq, LAMBDA x : x.type \in {"JUNCTION", "BRANCH"})
  IN  [i \in 1..Len(js) |-> js[i].id]

Fail(r, err, why) == [r EXCEPT !.pc = "done", !.err = err, !.why = why]

\* analyzeLeaks, lines 715-723: every error of the try block is rethrown
\* as a BadRequestException
FailAnalysis(r, why) == Fail(r, "BadRequest", why)

\* detectLeaks(options), lines 29-48 and 58-71: node scope or all junctions
\* and branches
DetectCall(k, node, threshold) ==
  /\ Startable(k)
  /\ request' = [request EXCEPT ![k] =
       [@ EXCEPT !.op = "detect", !.pc = "scan", !.node = node,
                 !.T = AnalysisTime, !.threshold = threshold,
                 !.timeWindow = DEFAULT_TIME_WINDOW,
                 !.todo = IF node = NoId THEN ScanNodes ELSE << node >>]]
  /\ UNCHANGED <<readings, detections, faults>>

\* detectLeaks with partitionId, lines 49-57, and detectLeaksInDma, lines
\* 176-191: calculateDmaMassBalance is called without a timeWindow and
\* throws (mass-balance.service.ts, lines 180-184)
DetectDma(k, p) ==
  /\ Startable(k)
  /\ request' = [request EXCEPT ![k] =
       Fail([@ EXCEPT !.op = "detectDma", !.partition = p,
                      !.T = AnalysisTime,
                      !.threshold = DEFAULT_THRESHOLD,
                      !.timeWindow = DEFAULT_TIME_WINDOW],
            "Error", "timeWindow is required")]
  /\ UNCHANGED <<readings, detections, faults>>

\* what follows the loop of detectLeaks: its caller gets the detections, or
\* analyzeLeaks goes on with them (lines 556-573, 610)
AfterScan(r) ==
  IF r.todo # << >> THEN r
  ELSE IF r.op = "detect" THEN [r EXCEPT !.pc = "done"]
  ELSE IF r.found = << >> THEN [r EXCEPT !.pc = "done"]
  ELSE [r EXCEPT !.pc = "check", !.at = 1]

\* the step of ScanStep when the evaluation of a node throws: the error
\* leaves the loop of lines 73-83
ScanFailure(k) ==
  request' = [request EXCEPT ![k] =
    IF @.op = "analyze" THEN FailAnalysis(@, "detection failed")
    ELSE Fail(@, "Error", "detection failed")]

\* detectLeakAtNode(node.id, timestamp, threshold, timeWindow) for the next
\* node of the loop, lines 89-167
ScanStep(k, pick, dbFails) ==
  LET r    == request[k]
      node == Head(r.todo)
      imb  == Imbalance(readings, node, r.T, pick)
  IN  /\ r.pc = "scan" /\ r.todo # << >>
      /\ pick \in LatestPicks(readings, node, r.T)
      /\ dbFails => CanFail
      /\ faults' = IF dbFails THEN faults + 1 ELSE faults
      /\ IF dbFails THEN ScanFailure(k) /\ UNCHANGED detections
         ELSE IF imb <= r.threshold
           THEN /\ request' = [request EXCEPT ![k] =
                     AfterScan([@ EXCEPT !.todo = Tail(@)])]
                /\ UNCHANGED detections
           ELSE /\ detections' =
                     Append(detections,
                            NewDetection(node, imb, r.T, r.threshold,
                                         r.timeWindow, k))
                /\ request' = [request EXCEPT ![k] =
                     AfterScan([@ EXCEPT !.todo = Tail(@),
                                         !.found = Append(@, Len(detections) + 1)])]
      /\ UNCHANGED readings

\* one iteration of the loop of analyzeLeaks is over (lines 654-698): the
\* report entry, the counters, and the next detection
AnalyzeEntry(r, withLocalization) ==
  LET d   == r.found[r.at]
      sev == detections[d].severity
  IN  [r EXCEPT
         !.report = Append(@, [id |-> d, severity |-> sev,
                               localization |-> withLocalization]),
         !.localized = IF withLocalization THEN @ + 1 ELSE @,
         !.breakdown = [@ EXCEPT ![sev] = @ + 1],
         !.at = @ + 1,
         !.pc = IF r.at = Len(r.found) THEN "done" ELSE "check"]

\* localizeLeak threw and every caller gets the error
LocalizationAborts(r, err, why) == Fail(r, err, why)

\* localizeLeak threw: the caller of localize gets the error, the loop of
\* analyzeLeaks catches it (lines 678-694)
LocalizationFailed(r, err, why) ==
  IF r.op = "analyze" THEN AnalyzeEntry([r EXCEPT !.why = why], FALSE)
  ELSE Fail(r, err, why)

\* localizeLeak, lines 377-391, with the status test removed
CheckDetectionAnyStatus(r) ==
  IF r.det \notin DOMAIN detections
    THEN LocalizationFailed(r, "NotFound", "no detection")
    ELSE [r EXCEPT !.pc = "locate", !.seen = detections[r.det].status]

\* localizeLeak, lines 377-391: read the detection, test its status
CheckDetection(r) ==
  IF r.det \notin DOMAIN detections
    THEN LocalizationFailed(r, "NotFound", "no detection")
  ELSE IF detections[r.det].status # "DETECTED"
    THEN LocalizationFailed([r EXCEPT !.seen = detections[r.det].status],
                            "BadRequest", "not DETECTED")
  ELSE [r EXCEPT !.pc = "locate", !.seen = "DETECTED"]

\* POST /leaks/localize with a detectionId
LocalizeCall(k, d, window) ==
  /\ Startable(k)
  /\ request' = [request EXCEPT ![k] =
       CheckDetection([@ EXCEPT !.op = "localize", !.det = d,
                                !.window = window])]
  /\ UNCHANGED <<readings, detections, faults>>

\* getLocalizationCandidates, lines 480-488: no status test
CandidatesCall(k, d) ==
  /\ Startable(k)
  /\ request' = [request EXCEPT ![k] =
       IF d \notin DOMAIN detections
         THEN Fail([@ EXCEPT !.op = "candidates", !.det = d],
                   "NotFound", "no detection")
         ELSE [@ EXCEPT !.op = "candidates", !.det = d, !.pc = "locate",
                        !.seen = detections[d].status]]
  /\ UNCHANGED <<readings, detections, faults>>

\* analyzeLeaks, lines 610-616: localizeLeak(detection.id,
\* this.DEFAULT_TIME_WINDOW) for the next detection
AnalyzeCheck(k) ==
  /\ request[k].pc = "check"
  /\ request' = [request EXCEPT ![k] =
       CheckDetection([request[k] EXCEPT
                         !.det = request[k].found[request[k].at],
                         !.window = DEFAULT_TIME_WINDOW])]
  /\ UNCHANGED <<readings, detections, faults>>

\* baselineTimeWindow ?? DEFAULT_BASELINE_TIME_WINDOW; 0 stands for undefined
BaselineWindow(window) ==
  IF window = 0 THEN DEFAULT_BASELINE_TIME_WINDOW ELSE window

\* the request after localizeLeakForDetection, with a thrown
\* BadRequestException taken for a result
AfterLocateIgnoringFailure(r, loc) ==
  IF r.op = "candidates" THEN [r EXCEPT !.loc = loc, !.pc = "done"]
  ELSE [r EXCEPT !.loc = loc, !.pc = "update"]

\* the request after localizeLeakForDetection returned or threw (lines
\* 394-398 and 491-492)
AfterLocate(r, loc) ==
  IF ~loc.ok
    THEN LocalizationFailed([r EXCEPT !.loc = loc], "BadRequest", loc.why)
  ELSE IF r.op = "candidates" THEN [r EXCEPT !.loc = loc, !.pc = "done"]
  ELSE [r EXCEPT !.loc = loc, !.pc = "update"]

\* localizationService.localizeLeakForDetection(detection, window), called
\* from localizeLeak (lines 394-398) and getLocalizationCandidates (491-492)
Locate(k, dbFails) ==
  LET r   == request[k]
      loc == localizeLeakForDetection(matrix, readings, detections[r.det],
                                      BaselineWindow(r.window))
  IN  /\ r.pc = "locate"
      /\ dbFails => CanFail
      /\ faults' = IF dbFails THEN faults + 1 ELSE faults
      /\ request' = [request EXCEPT ![k] =
           IF dbFails THEN LocalizationFailed(r, "Error", "query failed")
           ELSE AfterLocate(r, loc)]
      /\ UNCHANGED <<readings, detections>>

\* localizeLeak, lines 401-430: write the result and the status
Update(k, dbFails) ==
  LET r == request[k]
  IN  /\ r.pc = "update"
      /\ dbFails => CanFail
      /\ faults' = IF dbFails THEN faults + 1 ELSE faults
      /\ IF dbFails
           THEN /\ request' = [request EXCEPT ![k] =
                     LocalizationFailed(r, "Error", "update failed")]
                /\ UNCHANGED detections
           ELSE /\ detections' = [detections EXCEPT ![r.det] =
                     [@ EXCEPT !.localizedNode = r.loc.node,
                               !.score = r.loc.score,
                               !.localizedAt = k,
                               !.status = "LOCALIZED"]]
                /\ request' = [request EXCEPT ![k] =
                     IF r.op = "analyze" THEN [r EXCEPT !.pc = "details"]
                     ELSE [r EXCEPT !.pc = "done"]]
      /\ UNCHANGED readings

\* analyzeLeaks, lines 618-677: look up the localized node, add the entry
\* with its localization block
Details(k, dbFails) ==
  LET r == request[k]
  IN  /\ r.pc = "details"
      /\ dbFails => CanFail
      /\ faults' = IF dbFails THEN faults + 1 ELSE faults
      /\ request' = [request EXCEPT ![k] =
           IF dbFails THEN LocalizationFailed(r, "Error", "query failed")
           ELSE AnalyzeEntry(r, TRUE)]
      /\ UNCHANGED <<readings, detections>>

\* the sensor labels stored in the database
KnownSensorIds == {s.id : s \in {r \in FlowSensorRows : r.net \in scope.nets}}

BatchSensorIds(batch) == {batch[i].sensorId : i \in DOMAIN batch}

\* analyzeLeaks, lines 518-546, and createBatchFromAnalysis, lines 234-259:
\* validation and the lookup of the sensors of the batch
AnalyzeCall(k, batch) ==
  LET missing == BatchSensorIds(batch) \ KnownSensorIds
      r == [request[k] EXCEPT !.op = "analyze", !.batch = batch,
                              !.T = AnalysisTime,
                              !.threshold = DEFAULT_THRESHOLD,
                              !.timeWindow = DEFAULT_TIME_WINDOW]
  IN  /\ Startable(k)
      /\ request' = [request EXCEPT ![k] =
           IF batch = << >> THEN Fail(r, "BadRequest", "empty")
           ELSE IF missing # {}
             THEN FailAnalysis([r EXCEPT !.missing = missing],
                               "Sensors not found")
           ELSE [r EXCEPT !.pc = "store"]]
      /\ UNCHANGED <<readings, detections, faults>>

\* createBatchFromAnalysis, lines 266-303, then detectLeaks with the
\* defaults (lines 550-554, 58-71)
Store(k, dbFails) ==
  LET r == request[k]
  IN  /\ r.pc = "store"
      /\ dbFails => CanFail
      /\ faults' = IF dbFails THEN faults + 1 ELSE faults
      /\ IF dbFails
           THEN /\ request' = [request EXCEPT ![k] =
                     FailAnalysis(r, "insert failed")]
                /\ UNCHANGED readings
           ELSE /\ readings' = readings \cup
                     {[sensor |-> r.batch[i].sensorId, t |-> r.T,
                       flow |-> r.batch[i].flowValue, src |-> k] :
                        i \in DOMAIN r.batch}
                /\ request' = [request EXCEPT ![k] =
                     AfterScan([r EXCEPT !.pc = "scan",
                                         !.stored = Len(r.batch),
                                         !.todo = ScanNodes])]
      /\ UNCHANGED detections

----------------------------------------------------------------------------
(* SensorsService.create                                                   *)

\* the sensor rows created by the requests so far
CreatedSensors == UNION {Range(request[k].created) : k \in Requests}

\* lines 17-49: the node must exist, the label must be new in its network
SensorCreateCall(k, node, label, partition) ==
  LET r == [request[k] EXCEPT !.op = "createSensor", !.node = node,
                              !.label = label, !.partition = partition]
  IN  /\ Startable(k)
      /\ request' = [request EXCEPT ![k] =
           IF node \notin NodeIds THEN Fail(r, "NotFound", "no node")
           ELSE IF \E s \in FlowSensorRows \cup CreatedSensors :
                     s.net = NodeRow(node).net /\ s.id = label
             THEN Fail(r, "Conflict", "sensor exists")
           ELSE IF partition = NoId THEN [r EXCEPT !.pc = "mainline"]
           ELSE [r EXCEPT !.pc = "persist"]]
      /\ UNCHANGED <<readings, detections, faults>>

\* lines 51-65: without a partitionId, take the DMA of the mainline that
\* findMainlineForNode returns
SensorMainline(k) ==
  LET r == request[k]
      m == findMainlineForNode(r.node)
  IN  /\ r.pc = "mainline"
      /\ request' = [request EXCEPT ![k] =
           [r EXCEPT !.pc = "persist", !.mainline = m,
                     !.partition = IF m = NoId THEN NoId
                                   ELSE PartitionOfMainline(m)]]
      /\ UNCHANGED <<readings, detections, faults>>

\* lines 67-116: validate the partition, insert the sensor
SensorPersist(k) ==
  LET r == request[k]
  IN  /\ r.pc = "persist"
      /\ request' = [request EXCEPT ![k] =
           IF r.partition # NoId /\ r.partition \notin PartitionIds
             THEN Fail(r, "NotFound", "no partition")
           ELSE IF /\ r.partition # NoId
                   /\ (CHOOSE p \in PartitionRows : p.id = r.partition).net
                        # NodeRow(r.node).net
             THEN Fail(r, "Conflict", "other network")
           ELSE [r EXCEPT !.pc = "done",
                          !.created = << [id |-> r.label,
                                          net |-> NodeRow(r.node).net,
                                          node |-> r.node,
                                          partition |-> r.partition,
                                          active |-> TRUE] >>]]
      /\ UNCHANGED <<readings, detections, faults>>

----------------------------------------------------------------------------
(* Initial states and specifications of the leak services                  *)

\* the rows a build of n1 leaves when the simulation of candidate b failed
PartialMatrix ==
  {[net |-> "n1", leak |-> "a", sensor |-> "s1", val |-> 1],
   [net |-> "n1", leak |-> "a", sensor |-> "s2", val |-> 0]}

\* a reading stored `age` seconds before the analysis time; the flows of
\* the model are multiples of 12, so that the mean of up to four rows is
\* an integer
Stored(sid, age, flow) ==
  [sensor |-> sid, t |-> AnalysisTime - age, flow |-> flow, src |-> 0]

Reading(sid, flow) == [sensorId |-> sid, flowValue |-> flow]

\* analyzeDto.readings of the analyze requests: empty; two inflow sensors;
\* three sensors, one with a negative flow; one unknown sensor
Batches ==
  { << >>,
    << Reading("s3", 24), Reading("s9", 12) >>,
    << Reading("s3", 36), Reading("s1", 24), Reading("s2", -12) >>,
    << Reading("s3", 24), Reading("s0", 12) >> }

\* baselines for s1 and s2, and a reading of s3 inside the detection window
BaseReadings ==
  {Stored("s1", 500, 12), Stored("s2", 500, 24), Stored("s3", 200, 12)}

\* BaseReadings after an analysis of the three-sensor batch
AnalysedReadings ==
  BaseReadings \cup
    {Stored("s3", 0, 36), Stored("s1", 0, 24), Stored("s2", 0, -12)}

\* the row of a detection after localizeLeak (lines 401-408)
LocalizedRow(m, rs, d) ==
  LET loc == localizeLeakForDetection(m, rs, d, DEFAULT_TIME_WINDOW)
  IN  [d EXCEPT !.status = "LOCALIZED", !.localizedNode = loc.node,
                !.score = loc.score, !.localizedAt = 1]

\* the detection at node a that the analysis of the three-sensor batch
\* created and localized
AnalysedDetection(m) ==
  LocalizedRow(m, AnalysedReadings,
               NewDetection("a", 36, AnalysisTime, DEFAULT_THRESHOLD,
                            DEFAULT_TIME_WINDOW, 0))

\* the detection a node-scoped detectLeaks of mainline u2 created after it
MainlineDetection ==
  NewDetection("u2", 12, AnalysisTime, DEFAULT_THRESHOLD,
               DEFAULT_TIME_WINDOW, 0)

\* the detection at node a a detectLeaks request created from a flow of 24
\* on the sensor upstream of a
InflowDetection ==
  NewDetection("a", 24, AnalysisTime, DEFAULT_THRESHOLD,
               DEFAULT_TIME_WINDOW, 0)

World(m, rs, ds) == [matrix |-> m, readings |-> rs, detections |-> ds]

\* the database before the requests of the model: empty; after a detection
\* at a from a reading older than every window, without and with matrix;
\* after a detection at a with an unchanged flow; with a reading older than
\* every window, or inside the one-hour baseline window only; with
\* baselines and no matrix; after an analysis and a detection on u2, with a
\* complete and with a partial matrix
Worlds ==
  { World({}, {}, << >>),
    World({}, {Stored("s3", 4000, 24)}, << InflowDetection >>),
    World(PriorMatrix, {Stored("s3", 4000, 24)}, << InflowDetection >>),
    World(PriorMatrix, {Stored("s3", 500, 24), Stored("s3", 100, 24)},
          << InflowDetection >>),
    World(PriorMatrix, {Stored("s3", 4000, 24)}, << >>),
    World(PriorMatrix, {Stored("s3", 3000, 12)}, << >>),
    World({}, BaseReadings, << >>),
    World(PriorMatrix, AnalysedReadings,
          << AnalysedDetection(PriorMatrix), MainlineDetection >>),
    World(PartialMatrix, AnalysedReadings,
          << AnalysedDetection(PartialMatrix), MainlineDetection >>) }

InitLeaks ==
  \E w \in Worlds :
     /\ MatrixInit([nets |-> {"n1"}, calls |-> LeakCalls,
                    faults |-> LeakFaults, nodes |-> {NoId, "u2"},
                    thresholds |-> {DEFAULT_THRESHOLD},
                    batches |-> Batches], w.matrix)
     /\ readings = w.readings
     /\ detections = w.detections
     /\ request = [k \in 1..LeakCalls |-> IdleRequest]

\* one reading of every flow value on the sensor upstream of node a
InitSeverity ==
  \E v \in 0..MaxFlow :
     /\ MatrixInit([nets |-> {"n1"}, calls |-> SeverityCalls, faults |-> 0,
                    nodes |-> {"a"},
                    thresholds |-> {0, DEFAULT_THRESHOLD, 20},
                    batches |-> {}], {})
     /\ readings = {Stored("s3", 0, v)}
     /\ detections = << >>
     /\ request = [k \in 1..SeverityCalls |-> IdleRequest]

InitSensors ==
  /\ MatrixInit([nets |-> Networks, calls |-> SensorCalls, faults |-> 0,
                 nodes |-> {}, thresholds |-> {}, batches |-> {}], {})
  /\ readings = {}
  /\ detections = << >>
  /\ request = [k \in 1..SensorCalls |-> IdleRequest]

\* the values findFirst may return to the next step of the loop
ScanPicks(k) ==
  IF request[k].pc = "scan" /\ request[k].todo # << >>
    THEN LatestPicks(readings, Head(request[k].todo), request[k].T)
    ELSE {}

NextDetect ==
  \/ \E k \in Requests, node \in scope.nodes, th \in scope.thresholds :
        DetectCall(k, node, th) /\ UNCHANGED <<matrixVars, netVars>>
  \/ \E k \in Requests, p \in {"p_u"} :
        DetectDma(k, p) /\ UNCHANGED <<matrixVars, netVars>>
  \/ \E k \in Requests : \E pick \in ScanPicks(k), dbFails \in BOOLEAN :
        ScanStep(k, pick, dbFails) /\ UNCHANGED <<matrixVars, netVars>>

NextLeaks ==
  \/ NextDetect
  \/ \E k \in Requests, d \in 1..(Len(detections) + 1),
        window \in {0, DEFAULT_TIME_WINDOW} :
        LocalizeCall(k, d, window) /\ UNCHANGED <<matrixVars, netVars>>
  \/ \E k \in Requests, d \in 1..(Len(detections) + 1) :
        CandidatesCall(k, d) /\ UNCHANGED <<matrixVars, netVars>>
  \/ \E k \in Requests, batch \in scope.batches :
        AnalyzeCall(k, batch) /\ UNCHANGED <<matrixVars, netVars>>
  \/ \E k \in Requests, dbFails \in BOOLEAN :
        Store(k, dbFails) /\ UNCHANGED <<matrixVars, netVars>>
  \/ \E k \in Requests : AnalyzeCheck(k) /\ UNCHANGED <<matrixVars, netVars>>
  \/ \E k \in Requests, dbFails \in BOOLEAN :
        Locate(k, dbFails) /\ UNCHANGED <<matrixVars, netVars>>
  \/ \E k \in Requests, dbFails \in BOOLEAN :
        Update(k, dbFails) /\ UNCHANGED <<matrixVars, netVars>>
  \/ \E k \in Requests, dbFails \in BOOLEAN :
        Details(k, dbFails) /\ UNCHANGED <<matrixVars, netVars>>

NextSensors ==
  \/ \E k \in Requests, node \in NodeIds \cup {"zz"}, label \in {"s1", "t1"},
        partition \in {NoId, "p_u", "p_zz"} :
        SensorCreateCall(k, node, label, partition) /\ UNCHANGED <<matrixVars, netVars>>
  \/ \E k \in Requests : SensorMainline(k) /\ UNCHANGED <<matrixVars, netVars>>
  \/ \E k \in Requests : SensorPersist(k) /\ UNCHANGED <<matrixVars, netVars>>

\* localize and get-candidates requests on the stored detections
InitRace ==
  \E w \in Worlds :
     /\ MatrixInit([nets |-> {"n1"}, calls |-> RaceCalls, faults |-> 0,
                    nodes |-> {}, thresholds |-> {}, batches |-> {}],
                   w.matrix)
     /\ readings = w.readings
     /\ detections = w.detections
     /\ request = [k \in 1..RaceCalls |-> IdleRequest]

NextRace ==
  \/ \E k \in Requests, d \in 1..(Len(detections) + 1),
        window \in {0, DEFAULT_TIME_WINDOW} :
        LocalizeCall(k, d, window) /\ UNCHANGED <<matrixVars, netVars>>
  \/ \E k \in Requests, d \in 1..(Len(detections) + 1) :
        CandidatesCall(k, d) /\ UNCHANGED <<matrixVars, netVars>>
  \/ \E k \in Requests : Locate(k, FALSE) /\ UNCHANGED <<matrixVars, netVars>>
  \/ \E k \in Requests : Update(k, FALSE) /\ UNCHANGED <<matrixVars, netVars>>

\* localize requests that run at the same time
SpecRace == InitRace /\ [][NextRace]_vars

\* detect, localize, get-candidates and analyze requests, interleaved
SpecLeaks == InitLeaks /\ [][NextLeaks]_vars

\* node-scoped detection for every flow value up to MaxFlow
SpecSeverity == InitSeverity /\ [][NextDetect]_vars

\* sensor creation on every node of the stored hierarchies
SpecSensors == InitSensors /\ [][NextSensors]_vars

----------------------------------------------------------------------------
Next ==
  \/ \E k \in Calls, force \in BOOLEAN, n \in scope.nets :
        GenerateCall(k, force, n) /\ UNCHANGED <<leakVars, netVars>>
  \/ \E k \in Calls : GenerateResume(k) /\ UNCHANGED <<leakVars, netVars>>
  \/ \E k \in Calls : GenerateStats(k) /\ UNCHANGED <<leakVars, netVars>>
  \/ \E k \in Calls, dbFails \in BOOLEAN : BuildPrepare(k, dbFails) /\ UNCHANGED <<leakVars, netVars>>
  \/ \E k \in Calls, o \in {"ok", "early", "created"} : LoadAttempt(k, o) /\ UNCHANGED <<leakVars, netVars>>
  \/ \E k \in Calls, fails \in BOOLEAN : BaselineSimulation(k, fails) /\ UNCHANGED <<leakVars, netVars>>
  \/ \E k \in Calls : \E c \in Candidates(build[k].net), f \in StartFaults :
        WorkerStart(k, c, f) /\ UNCHANGED <<leakVars, netVars>>
  \/ \E k \in Calls : \E c \in Candidates(build[k].net),
        o \in FinishFaults(build[k].net) : WorkerFinish(k, c, o) /\ UNCHANGED <<leakVars, netVars>>
  \/ \E k \in Calls, dbFails \in BOOLEAN : BatchDone(k, dbFails) /\ UNCHANGED <<leakVars, netVars>>
  \/ \E k \in Calls, dbFails \in BOOLEAN : BuildPersist(k, dbFails) /\ UNCHANGED <<leakVars, netVars>>
  \/ \E k \in Calls, dbFails \in BOOLEAN : BuildStats(k, dbFails) /\ UNCHANGED <<leakVars, netVars>>
  \/ \E k \in Calls : RejectionHandler(k) /\ UNCHANGED <<leakVars, netVars>>

\* concurrent generate requests against a running or failed build
SpecGen == InitGen /\ [][Next]_vars

\* one build in detail, with engine and persistence failures
SpecBuild == InitBuild /\ [][Next]_vars

\* the orders in which the workers of a batch start and finish, no failures
SpecOrder == InitOrder /\ [][Next]_vars

\* the steps of builds whose setup, load, baseline and inserts succeed; the
\* simulations of the candidates may fail
NextLimit ==
  \/ \E k \in Calls, force \in BOOLEAN, n \in scope.nets :
        GenerateCall(k, force, n) /\ UNCHANGED <<leakVars, netVars>>
  \/ \E k \in Calls : GenerateResume(k) /\ UNCHANGED <<leakVars, netVars>>
  \/ \E k \in Calls : GenerateStats(k) /\ UNCHANGED <<leakVars, netVars>>
  \/ \E k \in Calls : BuildPrepare(k, FALSE) /\ UNCHANGED <<leakVars, netVars>>
  \/ \E k \in Calls : LoadAttempt(k, "ok") /\ UNCHANGED <<leakVars, netVars>>
  \/ \E k \in Calls : BaselineSimulation(k, FALSE) /\ UNCHANGED <<leakVars, netVars>>
  \/ \E k \in Calls : \E c \in Candidates(build[k].net), f \in StartFaults :
        WorkerStart(k, c, f) /\ UNCHANGED <<leakVars, netVars>>
  \/ \E k \in Calls : \E c \in Candidates(build[k].net),
        o \in FinishFaults(build[k].net) : WorkerFinish(k, c, o) /\ UNCHANGED <<leakVars, netVars>>
  \/ \E k \in Calls : BatchDone(k, FALSE) /\ UNCHANGED <<leakVars, netVars>>
  \/ \E k \in Calls : BuildPersist(k, FALSE) /\ UNCHANGED <<leakVars, netVars>>
  \/ \E k \in Calls : BuildStats(k, FALSE) /\ UNCHANGED <<leakVars, netVars>>

\* the steps of a build up to the return of loadNetwork
NextLoad ==
  \/ \E k \in Calls, force \in BOOLEAN, n \in scope.nets :
        GenerateCall(k, force, n) /\ UNCHANGED <<leakVars, netVars>>
  \/ \E k \in Calls : GenerateResume(k) /\ UNCHANGED <<leakVars, netVars>>
  \/ \E k \in Calls : GenerateStats(k) /\ UNCHANGED <<leakVars, netVars>>
  \/ \E k \in Calls, dbFails \in BOOLEAN : BuildPrepare(k, dbFails) /\ UNCHANGED <<leakVars, netVars>>
  \/ \E k \in Calls, o \in {"ok", "early", "created"} : LoadAttempt(k, o) /\ UNCHANGED <<leakVars, netVars>>
  \/ \E k \in Calls : RejectionHandler(k) /\ UNCHANGED <<leakVars, netVars>>

\* the attempts of loadNetwork
SpecLoad == InitLoad /\ [][NextLoad]_vars

\* a build whose candidates do not fit into one batch
SpecLimit == InitLimit /\ [][NextLimit]_vars

\* one build of a network while the table holds the matrix of another one
SpecStats == InitStats /\ [][Next]_vars

----------------------------------------------------------------------------
(* Properties                                                              *)

Running == {"prepare", "load", "baseline", "batch", "persist", "stats"}
Ended == {"completed", "rejected", "failed"}

\* C of the specification: the nodes of a network that carry an EPANET id
SpecC(n) == {CandSeq(n)[i] : i \in 1..Len(CandSeq(n))}

\* S of the specification: the active sensors on EPANET-tagged nodes
SpecS(n) == {s \in SensorRows : s.net = n /\ s.active /\ s.tagged}

HasEntry(m, n, c, sid) ==
  \E e \in m : e.net = n /\ e.leak = c /\ e.sensor = sid

\* C1: within a build no simulator handle is used by two with_leak
\* invocations that are in flight at the same time (between the
\* perturb-and-solve step of one worker and its read of the demands no other
\* worker works on the same handle).
C1_HandleNotShared ==
  \A k \in Calls : \A c1, c2 \in InFlight(build[k]) :
     c1 # c2 => WorkerHandle(k, c1) # WorkerHandle(k, c2)

\* the sensitivity of sensor node x to a leak at c when c is simulated alone
\* on the stored network
IsolatedSensitivity(n, c) ==
  LET bd0 == [x \in EngineNodes(n) |-> BaseDemand0(x)]
      base == SolveH(bd0)
      leak == SolveH([bd0 EXCEPT ![c] = @ + LEAK_SIZE])
  IN [x \in SensorNodeIds(n) |-> (leak[x] - base[x]) \div LEAK_SIZE]

HostOf(sid) == (CHOOSE s \in SensorRows : s.id = sid).node

\* C2: the persisted matrix does not depend on the order in which the
\* concurrent candidate simulations start, interleave and complete: every
\* persisted M[c, s] is the value determined by c, s and the baseline alone.
C2_OrderIndependent ==
  \A e \in matrix : e.val = IsolatedSensitivity(e.net, e.leak)[HostOf(e.sensor)]

\* C3: with_leak restores the base demand of the leak node on every exit
\* path: once the call for candidate c has returned or thrown, the base
\* demand at c equals its value before the call.
C3_BaseDemandRestored ==
  \A k \in Calls : \A c \in DOMAIN build[k].worker :
     build[k].worker[c] \in {"ok", "failed"}
        => build[k].bd[c] = BaseDemand0(c)

\* C4: a generate call made and returning while a build is in progress
\* returns the live progress with state in_progress, whatever force is and
\* whether or not entries of the network are persisted.
C4_InProgressReturned ==
  \A k \in Calls :
     (call[k].pc = "done" /\ ~call[k].threw
        /\ call[k].seenAtCall = "in_progress"
        /\ call[k].seenAtReturn = "in_progress")
       => call[k].result.status = "in_progress"

\* C5: at most one matrix build runs at a time.
C5_AtMostOneBuild ==
  Cardinality({k \in Calls : build[k].pc \in Running}) <= 1

\* C6: generate(force = false) on a network with a persisted entry returns
\* completed with that network's entry count, starts no build and leaves the
\* matrix, the build status, the builds and the handles unchanged.
C6_ReuseIsReadOnly ==
  [][\A k \in Calls :
       (call'[k].pc # call[k].pc /\ ~call'[k].force /\ call'[k].exists)
         => /\ matrix' = matrix
            /\ generationStatus' = generationStatus
            /\ build' = build
            /\ handle' = handle
            /\ call'[k].pc = "done" =>
                 call'[k].result =
                   CompletedResult(CountEntries(matrix, call[k].net))]_vars

C6_Witness ==
  \E k \in Calls :
     /\ call[k].pc = "done" /\ ~call[k].force /\ call[k].exists
     /\ call[k].result.status = "completed"
     /\ call[k].result.totalEntries = CountEntries(matrix, call[k].net)
     /\ call[k].result.totalEntries > 0

\* C7: generate on a network with no candidate node with an EPANET id or no
\* active sensor fails: the caller receives the error, not a status.
C7_InvalidInputThrown ==
  \A k \in Calls :
     (call[k].pc = "done" /\ call[k].net # NoNetworkId
        /\ (SpecC(call[k].net) = {}
              \/ {s \in SensorRows : s.net = call[k].net /\ s.active} = {}))
       => call[k].threw

\* C8: a candidate whose with_leak throws is skipped: the build keeps
\* running with its status untouched, collects no entry for that candidate,
\* simulates every other candidate and persists its entries, and ends in
\* state completed.
C8_CandidateFailureSkipped ==
  [][\A k \in Calls :
       LET b == build[k]
           b1 == build'[k]
       IN /\ \A c \in DOMAIN b1.worker :
               b1.worker[c] = "failed" =>
                 /\ \A e \in b1.entries : e.leak # c
                 /\ (c \in DOMAIN b.worker /\ b.worker[c] # "failed") =>
                      (b1.pc = "batch" /\ generationStatus' = generationStatus)
          /\ (b.pc = "persist" /\ b1.pc = "stats") =>
               \A c \in SpecC(b.net) :
                  /\ b.worker[c] \in {"ok", "failed"}
                  /\ b.worker[c] = "ok" =>
                       \A s \in SpecS(b.net) :
                          HasEntry(matrix', b.net, c, s.id)
          /\ (b.pc = "stats" /\ b1.pc = "completed") =>
               generationStatus'.status = "completed"]_vars

C8_Witness ==
  \E k \in Calls :
     /\ build[k].pc = "completed"
     /\ generationStatus.status = "completed"
     /\ \E c \in DOMAIN build[k].worker : build[k].worker[c] = "failed"
     /\ \E c \in DOMAIN build[k].worker :
          /\ build[k].worker[c] = "ok"
          /\ \A s \in SpecS(build[k].net) :
                HasEntry(matrix, build[k].net, c, s.id)

\* C9: on every exit path of a build each simulator handle that was created
\* is closed, and no handle is closed more than once.
C9_HandlesClosedOnce ==
  \A k \in Calls : \A a \in 1..MAX_RETRIES :
     /\ handle[k][a].closes <= 1
     /\ (build[k].pc \in Ended /\ handle[k][a].st # "none")
          => handle[k][a].closes = 1

\* C10 as stated: when a non-forced build ends in state completed, the
\* network has exactly |C| * |S| persisted entries.
C10_CountAtCompletion ==
  [][\A k \in Calls :
       (build[k].pc = "stats" /\ build'[k].pc = "completed" /\ ~build[k].force)
         => CountEntries(matrix', build[k].net)
              = Cardinality(SpecC(build[k].net)) * Cardinality(SpecS(build[k].net))]_vars

SucceededCandidates(b) == {c \in DOMAIN b.worker : b.worker[c] = "ok"}

\* C10 amended: a non-forced build on its way to completed writes exactly
\* |C_ok| * |S| entries, C_ok being the candidates whose with_leak did not
\* throw; right after its insert the network has |C| * |S| entries when no
\* candidate failed.
C10_CountOfSucceeded ==
  [][\A k \in Calls :
       LET b == build[k]
           C == SpecC(b.net)
           S == SpecS(b.net)
       IN (b.pc = "persist" /\ build'[k].pc = "stats" /\ ~b.force)
            => /\ Cardinality(b.entries)
                    = Cardinality(SucceededCandidates(b)) * Cardinality(S)
               /\ SucceededCandidates(b) = C =>
                    CountEntries(matrix', b.net)
                      = Cardinality(C) * Cardinality(S)]_vars

C10_Witness ==
  \E k \in Calls :
     /\ build[k].pc = "completed" /\ ~build[k].force
     /\ SucceededCandidates(build[k]) = SpecC(build[k].net)
     /\ Cardinality(SpecC(build[k].net)) = 2
     /\ Cardinality(SpecS(build[k].net)) = 2
     /\ CountEntries(matrix, build[k].net) = 4

----------------------------------------------------------------------------
(* Properties of the leak services                                         *)

\* the fields localizeLeak writes
Localization(d) ==
  [status |-> d.status, node |-> d.localizedNode, score |-> d.score,
   at |-> d.localizedAt]

LocalizationFailures ==
  {"no matrix", "no readings", "no nodes", "no node in dma", "no score"}

\* the localization fields of a detection are unset
Unlocalized(d) ==
  d.localizedNode = NoId /\ d.score = ZeroScore /\ d.localizedAt = 0

C13_LocalizedInsideDma ==
  /\ \A d \in DOMAIN detections :
       (detections[d].status = "LOCALIZED" /\ detections[d].partition # NoId)
         => detections[d].localizedNode
              \in getNodeIdsInDma(detections[d].partition)
  /\ \A k \in Requests :
       ( /\ request[k].loc.ok
         /\ detections[request[k].det].partition # NoId )
       => \A i \in DOMAIN request[k].loc.candidates :
            request[k].loc.candidates[i]
              \in getNodeIdsInDma(detections[request[k].det].partition)

\* a localize request moved the detection of mainline u2 to LOCALIZED at
\* node b while the matrix also holds rows of candidate a, outside the DMA
C13_Witness ==
  \E k \in Requests :
     /\ request[k].op = "localize"
     /\ request[k].pc = "done"
     /\ request[k].err = "none"
     /\ detections[request[k].det].partition = "p_u2"
     /\ detections[request[k].det].status = "LOCALIZED"
     /\ detections[request[k].det].localizedNode = "b"
     /\ request[k].loc.candidates = << "b" >>
     /\ \E e \in matrix : e.net = "n1" /\ e.leak = "a"
     /\ "a" \notin getNodeIdsInDma("p_u2")

\* C14: every detection has an imbalance above the threshold it was
\* detected with and the severity of the table for that imbalance; a
\* node-scoped detection whose imbalance is at most the threshold persists
\* nothing.
C14_SeverityTable ==
  /\ \A d \in DOMAIN detections :
       LET x == detections[d].imbalance
       IN  /\ x > detections[d].threshold
           /\ detections[d].severity = "CRITICAL" <=> x > 50
           /\ detections[d].severity = "HIGH" <=> (20 < x /\ x <= 50)
           /\ detections[d].severity = "MEDIUM" <=> (10 < x /\ x <= 20)
           /\ detections[d].severity = "LOW" <=> x <= 10
           /\ detections[d].severity \in {"LOW", "MEDIUM", "HIGH", "CRITICAL"}
  /\ \A k \in Requests :
       ( /\ request[k].op = "detect"
         /\ request[k].pc = "done"
         /\ request[k].err = "none"
         /\ request[k].node # NoId )
       => \A pick \in LatestPicks(readings, request[k].node, request[k].T) :
            Imbalance(readings, request[k].node, request[k].T, pick)
               <= request[k].threshold
            <=> request[k].found = << >>

\* a detection at the upper edge of HIGH, detected with threshold 20
C14_Witness ==
  \E d \in DOMAIN detections :
     /\ detections[d].imbalance = 50
     /\ detections[d].threshold = 20
     /\ detections[d].severity = "HIGH"
     /\ \E k \in Requests : request[k].found = << d >>

\* the contribution of a set of sensors as the specification defines it:
\* the mean of the readings of each sensor inside [T - W, T], nothing for a
\* sensor without a reading there
WindowFlow(rs, S, T, W) ==
  LET seen == {sid \in S : ReadingsIn(rs, sid, T - W, T) # {}}
  IN  SumOver([sid \in seen |-> Mean(ReadingsIn(rs, sid, T - W, T))], seen)

WindowImbalance(rs, node, T, W) ==
  WindowFlow(rs, InflowSensors(node), T, W)
    - WindowFlow(rs, OutflowSensors(node), T, W)

\* C15: the evaluation of a node creates a detection exactly when the
\* imbalance of the window means exceeds the threshold, and the detection
\* carries that imbalance; readings older than T - W play no part.
C15_WindowedMeans ==
  [][ \A k \in Requests :
        ( /\ request[k].pc = "scan"
          /\ request[k].todo # << >>
          /\ request'[k] # request[k]
          /\ request'[k].err = "none" )
        => LET x == WindowImbalance(readings, Head(request[k].todo),
                                    request[k].T, request[k].timeWindow)
           IN  IF x > request[k].threshold
                 THEN /\ Len(detections') = Len(detections) + 1
                      /\ detections'[Len(detections')].imbalance = x
                 ELSE detections' = detections
    ]_vars

\* C16: in a detection over all junctions and branches, a failure while
\* one node is evaluated does not end the request with an error: the
\* request goes on with the nodes after it.
C16_FailedScopeSkipped ==
  [][ \A k \in Requests :
        ( /\ request[k].op = "detect"
          /\ request[k].node = NoId
          /\ request[k].pc = "scan"
          /\ faults' = faults + 1 )
        => /\ request'[k].err = "none"
           /\ request'[k].todo = Tail(request[k].todo)
           /\ request'[k].found = request[k].found
    ]_vars

\* C17: an analysis whose batch names an unknown sensor ends with a
\* NotFound error that lists the missing ids, stores no reading of the
\* batch and creates no detection.
C17_UnknownSensorNotFound ==
  \A k \in Requests :
     ( /\ request[k].op = "analyze"
       /\ request[k].pc = "done"
       /\ BatchSensorIds(request[k].batch) \ KnownSensorIds # {} )
     => /\ request[k].err = "NotFound"
        /\ request[k].missing = BatchSensorIds(request[k].batch) \ KnownSensorIds
        /\ request[k].stored = 0
        /\ \A r \in readings : r.src # k
        /\ request[k].found = << >>

RECURSIVE SumSeverities(_, _)
SumSeverities(b, S) ==
  IF S = {} THEN 0
  ELSE LET s == CHOOSE x \in S : TRUE IN b[s] + SumSeverities(b, S \ {s})

\* the report entries that carry a localization block
WithLocalization(report) == {i \in DOMAIN report : report[i].localization}

\* C18: once analyze has its detections, no localization failure ends it
\* with an error: a failed detection gets an entry without localization
\* block and the loop goes on with the next one; in the result there is one
\* entry per detection, `localized` counts the entries with a localization
\* block and the severity counters sum to the number of detections.
C18_AnalysisSurvivesFailure ==
  [][ \A k \in Requests : request'[k].op = "analyze" =>
        /\ request'[k].at >= 1 => request'[k].err = "none"
        /\ ( /\ request[k].pc \in {"check", "locate", "update", "details"}
             /\ request'[k].at = request[k].at + 1 )
           => /\ Len(request'[k].report) = request[k].at
              /\ request'[k].report[request[k].at].id
                   = request[k].found[request[k].at]
              /\ request'[k].pc = IF request[k].at < Len(request[k].found)
                                    THEN "check" ELSE "done"
        /\ ( /\ request'[k].pc = "done"
             /\ request'[k].err = "none" )
           => /\ Len(request'[k].report) = Len(request'[k].found)
              /\ request'[k].localized
                   = Cardinality(WithLocalization(request'[k].report))
              /\ SumSeverities(request'[k].breakdown,
                               DOMAIN request'[k].breakdown)
                   = Len(request'[k].found)
              /\ \A i \in WithLocalization(request'[k].report) :
                   detections'[request'[k].report[i].id].status = "LOCALIZED"
    ]_vars

\* an analysis found two detections; the localization of the first failed,
\* the second was localized
C18_Witness ==
  \E k \in Requests :
     /\ request[k].op = "analyze"
     /\ request[k].pc = "done"
     /\ request[k].err = "none"
     /\ Len(request[k].found) = 2
     /\ ~request[k].report[1].localization
     /\ request[k].report[2].localization
     /\ request[k].localized = 1
     /\ detections[request[k].found[1]].status = "DETECTED"
     /\ detections[request[k].found[2]].status = "LOCALIZED"

\* C19: the localization of a detection found by analyze computes its
\* baseline over the DEFAULT_BASELINE_TIME_WINDOW seconds that end where
\* the detection window starts.
C19_AnalyzeBaselineHour ==
  [][ \A k \in Requests :
        ( /\ request[k].op = "analyze"
          /\ request[k].pc = "locate"
          /\ request'[k] # request[k]
          /\ faults' = faults
          /\ CountEntries(matrix, detections[request[k].det].net) > 0 )
        => request'[k].loc.baseline
             = BaselineMap(readings, detections[request[k].det].net,
                           detections[request[k].det].timestamp,
                           detections[request[k].det].timeWindow,
                           DEFAULT_BASELINE_TIME_WINDOW)
    ]_vars

\* the nearest MAINLINE on the parent chain of a node, the node included
RECURSIVE NearestMainline(_)
NearestMainline(id) ==
  IF id = NoId \/ id \notin NodeIds THEN NoId
  ELSE IF NodeRow(id).type = "MAINLINE" THEN id
  ELSE NearestMainline(ParentOf(id))

\* C20: for a sensor created without partitionId the mainline looked up is
\* the nearest MAINLINE ancestor of its node at any depth, and the sensor
\* is stored with the DMA of that mainline.
C20_NearestMainlineAtAnyDepth ==
  [][ \A k \in Requests :
        /\ request[k].pc = "mainline"
             => /\ request'[k].mainline = NearestMainline(request[k].node)
                /\ request'[k].mainline # NoId
                     => request'[k].partition
                          = PartitionOfMainline(request'[k].mainline)
        /\ (request[k].pc = "persist" /\ request'[k].created # << >>)
             => request'[k].created[1].partition = request[k].partition
    ]_vars

----------------------------------------------------------------------------
(* Properties of the build status and of the batch loop                    *)

\* C30: after a build of network A has completed, the totalEntries of the
\* stored build status is the number of persisted entries of network A,
\* whatever is stored for other networks.
C30_StatsOfBuiltNetwork ==
  \A k \in Calls :
     (build[k].pc = "completed" /\ generationStatus.status = "completed")
       => generationStatus.totalEntries = CountEntries(matrix, build[k].net)

\* the positions of a build between the count of its candidates (line 235)
\* and its completed status (line 348)
Counted == {"batch", "persist", "stats"}

\* C24: while a build that has counted its candidates C runs, and when it
\* completes, the progress of the status satisfies
\* 0 <= nodesProcessed <= totalNodes = |C| and
\* percentage = round(100 * nodesProcessed / |C|); nodesProcessed never
\* decreases and changes only when every invocation of the current batch
\* has finished; the completed status has nodesProcessed = |C| and
\* percentage = 100.
C24_ProgressOfBuild ==
  [][\A k \in Calls :
       (/\ build[k].pc \in Counted
        /\ build'[k].pc \in Counted \cup {"completed"}
        /\ generationStatus.totalNodes > 0
        /\ generationStatus'.totalNodes > 0)
       => LET s == generationStatus'
              n == build[k].net
              C == Len(CandSeq(n))
          IN  /\ s.nodesProcessed \in 0..s.totalNodes
              /\ s.totalNodes = C
              /\ s.percentage = Percentage(s.nodesProcessed, C)
              /\ s.nodesProcessed >= generationStatus.nodesProcessed
              /\ s.nodesProcessed # generationStatus.nodesProcessed
                   => /\ build[k].pc = "batch"
                      /\ \A c \in Batch(n, build[k].batchNo) :
                            build[k].worker[c] \in {"ok", "failed"}
              /\ build'[k].pc = "completed"
                   => /\ s.status = "completed"
                      /\ s.nodesProcessed = C
                      /\ s.percentage = 100]_vars

\* C25: at every moment of a build at most 5 leak simulations of that build
\* are in flight, whatever the number of its candidates.
C25_AtMostFiveInFlight ==
  \A k \in Calls : Cardinality(InFlight(build[k])) <= 5

\* five simulations of a build of six candidates are in flight
C25_Witness ==
  \E k \in Calls :
     /\ Len(CandSeq(build[k].net)) > 5
     /\ build[k].pc = "batch"
     /\ Cardinality(InFlight(build[k])) = 5
     /\ \E c \in Candidates(build[k].net) : build[k].worker[c] = "waiting"

\* the attempts of the load of build b that have failed
FailedAttempts(b) == IF b.project # 0 THEN b.attempt - 1 ELSE b.attempt

\* C26: loadNetwork makes at most 3 attempts; the handle it returns is that
\* of the first successful attempt and no attempt follows it; the delay is
\* taken between two attempts only, never after the last one; the load has
\* failed exactly when 3 attempts in a row have failed.
C26_LoadRetries ==
  \A k \in Calls :
     LET b == build[k]
     IN  /\ b.attempt <= 3
         /\ b.project # 0 =>
              /\ b.project = b.attempt
              /\ handle[k][b.project].st = "open"
              /\ \A a \in 1..(b.project - 1) : handle[k][a].st # "open"
         /\ \A a \in (b.attempt + 1)..MAX_RETRIES : handle[k][a] = NoHandle
         /\ b.sleeps = Min(FailedAttempts(b), 2)
         /\ (b.project = 0 /\ b.attempt = 3)
              <=> (b.project = 0 /\ b.attempt > 0
                     /\ b.pc \in {"rejected", "failed"})
         /\ b.pc = "load" => (b.project = 0 /\ b.attempt < 3)

\* a load has failed three times, with two delays, and left the project of
\* its second attempt behind
C26_Witness ==
  \E k \in Calls :
     /\ build[k].attempt = 3
     /\ build[k].sleeps = 2
     /\ build[k].pc = "failed"
     /\ build[k].project = 0
     /\ handle[k][2].st = "created"

\* C28: a status completed or error changes again only in the step in which
\* a generate call starts a new build, and the rejection handler of a build
\* that has ended leaves the status of a build that is running alone.
C28_FinishedBuildKeepsStatus ==
  [][/\ (/\ generationStatus.status \in {"completed", "error"}
         /\ generationStatus'.status # generationStatus.status)
        => \E k \in Calls : build[k].pc = "none" /\ build'[k].pc = "prepare"
     /\ \A k \in Calls :
          (/\ build[k].pc = "rejected"
           /\ build'[k].pc = "failed"
           /\ \E j \in Calls : build[j].pc \in Running)
          => generationStatus' = generationStatus]_vars

----------------------------------------------------------------------------
(* Properties of concurrent localize requests                              *)

\* the localize requests that have written a localization for detection d
Writers(d) ==
  {k \in Requests : /\ request[k].op = "localize"
                    /\ request[k].det = d
                    /\ request[k].pc = "done"
                    /\ request[k].err = "none"}

\* C27: of the localize requests for one detection at most one writes
\* localization results; a request that finds the detection DETECTED and
\* is overtaken by another one fails.
C27_OneLocalizationPerDetection ==
  \A d \in DOMAIN detections : Cardinality(Writers(d)) <= 1

----------------------------------------------------------------------------
(* NetworkService.create / importFromEpanet / createDmasForMainlines /     *)
(* getNodeIdsInDma and EpanetParserService.mapToNetworkNodes               *)
(* The id of a network is the number of the import request that created    *)
(* it; the label (nodeId) of a node is a number; the primary key of a node *)
(* row is the pair of its network and its label.  Requests to the network  *)
(* service are taken one after the other.                                  *)

\* parentId: undefined in NetworkNodeData
NoLabel == 0

\* parentId: null in a network_nodes row
NoParent == << >>

\* the primary key of the node with label id in network n
Pk(n, id) == <<n, id>>

\* the sections a node line is read from: [JUNCTIONS] (without demand),
\* [TANKS], [RESERVOIRS]
FileKinds == {"JUNCTION", "TANK", "RESERVOIR"}

\* ParsedEpanetData: the i-th node line declares the node with id i, a link
\* line is <<fromNode, toNode>>; a link may name a node that is not declared
Files ==
  {[kinds |-> ks, links |-> ls] :
     ks \in UNION {[1..n -> FileKinds] : n \in 1..FileNodes},
     ls \in UNION {[1..m -> (1..FileNodes) \X (1..FileNodes)] :
                     m \in 0..FileLinks}}

\* lines 232-238: some link ends at the node
HasIncoming(file, id) == \E j \in DOMAIN file.links : file.links[j][2] = id

\* lines 227-244: reservoirs and nodes without incoming link
EntryNodes(file) ==
  {i \in DOMAIN file.kinds :
     file.kinds[i] = "RESERVOIR" \/ ~HasIncoming(file, i)}

\* lines 216-224: linkConnections.get(id)
Connections(file, id) ==
  {file.links[j][2] : j \in {j \in DOMAIN file.links : file.links[j][1] = id}}

\* lines 268-280: the type of a node that is not an entry node (the demand
\* of the node lines is 0)
MappedType(file, i) ==
  IF Cardinality(Connections(file, i)) > 1 \/ file.kinds[i] = "JUNCTION"
    THEN "JUNCTION" ELSE "BRANCH"

\* lines 282-289: fromNode of the first link that ends at the node
FirstParent(file, id) ==
  LET js == {j \in DOMAIN file.links : file.links[j][2] = id}
  IN  IF js = {} THEN NoLabel
      ELSE file.links[CHOOSE j \in js : \A i \in js : j <= i][1]

\* lines 250-260: the entry nodes, in the order of the node lines
EntryData(file) ==
  LET all == [i \in DOMAIN file.kinds |->
                [nodeId |-> i, nodeType |-> "MAINLINE", parentId |-> NoLabel]]
  IN  SelectSeq(all, LAMBDA x : x.nodeId \in EntryNodes(file))

\* MappedParent without the lookup in nodeMap
MappedParentUnchecked(file, i, nodeMap) == FirstParent(file, i)

\* lines 291-296: parentId ? nodeMap.get(parentId) : undefined
MappedParent(file, i, nodeMap) ==
  IF FirstParent(file, i) \in nodeMap THEN FirstParent(file, i) ELSE NoLabel

\* lines 262-301: the other nodes from node line i on; nodeMap holds the
\* entry nodes and the nodes of the lines before i
RECURSIVE RemainingData(_, _, _)
RemainingData(file, i, nodeMap) ==
  IF i > Len(file.kinds) THEN << >>
  ELSE IF i \in EntryNodes(file) THEN RemainingData(file, i + 1, nodeMap)
  ELSE << [nodeId |-> i, nodeType |-> MappedType(file, i),
           parentId |-> MappedParent(file, i, nodeMap)] >>
         \o RemainingData(file, i + 1, nodeMap \cup {i})

\* EpanetParserService.mapToNetworkNodes(parsedData).nodes
mapToNetworkNodes(file) ==
  EntryData(file) \o RemainingData(file, 1, EntryNodes(file))

\* importFromEpanet, lines 211-284: the rows after createMany and the parent
\* updates
ImportedRows(n, data) ==
  LET labels == {data[i].nodeId : i \in DOMAIN data}
  IN  {[net |-> n, id |-> data[i].nodeId, type |-> data[i].nodeType,
        parent |-> IF data[i].parentId # NoLabel /\ data[i].parentId \in labels
                     THEN Pk(n, data[i].parentId) ELSE NoParent] :
         i \in DOMAIN data}

\* a set of primary keys as a sequence, by label
RECURSIVE SeqOfPks(_)
SeqOfPks(S) ==
  IF S = {} THEN << >>
  ELSE LET x == CHOOSE x \in S : \A y \in S : x[2] <= y[2]
       IN  << x >> \o SeqOfPks(S \ {x})

\* networkNode.findMany({ networkId, nodeType: MAINLINE }), lines 335-340
MainlineSeq(rows, n) ==
  SeqOfPks({Pk(r.net, r.id) : r \in {r \in rows : r.net = n /\ r.type = "MAINLINE"}})

\* children of a node row (include: { children: true })
ChildIds(rows, pk) == {Pk(r.net, r.id) : r \in {r \in rows : r.parent = pk}}

\* getNodeIdsInDma, lines 430-456: the queue loop over the rows; visits is
\* the order in which nodes are added to the result
RECURSIVE BfsRows(_, _, _, _)
BfsRows(rows, queue, nodeIds, visits) ==
  IF queue = << >> THEN [nodeIds |-> nodeIds, visits |-> visits]
  ELSE LET currentId == Head(queue)
           ids1 == nodeIds \cup {currentId}
       IN  IF currentId \in nodeIds
             THEN BfsRows(rows, Tail(queue), nodeIds, visits)
             ELSE BfsRows(rows,
                          Tail(queue) \o SeqOfPks(ChildIds(rows, currentId) \ ids1),
                          ids1, Append(visits, currentId))

NetDone(r) == [r EXCEPT !.pc = "done"]

NetFail(r, err) == [r EXCEPT !.pc = "done", !.err = err]

\* a request is made when the requests before it have returned
NetStartable(k) ==
  /\ netRequest[k].pc = "idle"
  /\ \A j \in 1..(k - 1) : netRequest[j].pc = "done"

\* createDmasForMainlines, lines 342-370: the loop is over
AfterDmas(r) == IF r.todo = << >> THEN NetDone(r) ELSE r

\* importFromEpanet, lines 191-300: the transaction that creates the network
\* and its nodes, then the call of createDmasForMainlines (line 303)
ImportCall(k) ==
  LET rows == ImportedRows(k, mapToNetworkNodes(scope.file))
  IN  /\ NetStartable(k)
      /\ network' = network \cup {k}
      /\ networkNode' = networkNode \cup rows
      /\ netRequest' = [netRequest EXCEPT ![k] =
           AfterDmas([@ EXCEPT !.op = "import", !.pc = "dmas", !.net = k,
                               !.todo = MainlineSeq(rows, k)])]
      /\ UNCHANGED networkPartition

\* POST networks/:id/dmas: createDmasForMainlines(networkId), lines 334-340
CreateDmasCall(k, n) ==
  /\ NetStartable(k)
  /\ netRequest' = [netRequest EXCEPT ![k] =
       AfterDmas([@ EXCEPT !.op = "dmas", !.pc = "dmas", !.net = n,
                           !.todo = MainlineSeq(networkNode, n)])]
  /\ UNCHANGED <<network, networkNode, networkPartition>>

\* the partition row of lines 351-357; its id is the creating request and
\* the position in its result
NewPartition(k, r, mainline) ==
  [id |-> <<k, Len(r.created) + 1>>, net |-> r.net, mainline |-> mainline,
   partitionId |-> <<"DMA_", mainline[2]>>]

\* DmaStep without the lookup of lines 344-349
DmaStepAlwaysCreates(k) ==
  LET r == netRequest[k]
      mainline == Head(r.todo)
      p == NewPartition(k, r, mainline)
  IN  /\ r.pc = "dmas"
      /\ networkPartition' = networkPartition \cup {p}
      /\ netRequest' = [netRequest EXCEPT ![k] =
           AfterDmas([r EXCEPT !.todo = Tail(@),
                               !.created = Append(@, p.id)])]
      /\ UNCHANGED <<network, networkNode>>

\* createDmasForMainlines, lines 342-367: one mainline of the loop
DmaStep(k) ==
  LET r == netRequest[k]
      mainline == Head(r.todo)
      p == NewPartition(k, r, mainline)
  IN  /\ r.pc = "dmas"
      /\ IF \E q \in networkPartition : q.mainline = mainline
           THEN /\ netRequest' = [netRequest EXCEPT ![k] =
                     AfterDmas([r EXCEPT !.todo = Tail(@)])]
                /\ UNCHANGED networkPartition
           ELSE /\ networkPartition' = networkPartition \cup {p}
                /\ netRequest' = [netRequest EXCEPT ![k] =
                     AfterDmas([r EXCEPT !.todo = Tail(@),
                                         !.created = Append(@, p.id)])]
      /\ UNCHANGED <<network, networkNode>>

\* NetworkService.create(dto), lines 25-80
CreateNode(k, n, label, type, parent) ==
  LET r == [netRequest[k] EXCEPT !.op = "create", !.net = n]
      row == [net |-> n, id |-> label, type |-> type, parent |-> parent]
      keys == {Pk(x.net, x.id) : x \in networkNode}
      err == IF n \notin network THEN "NotFound"
             ELSE IF Pk(n, label) \in keys THEN "Conflict"
             ELSE IF parent = NoParent THEN "none"
             ELSE IF parent \notin keys THEN "NotFound"
             ELSE IF parent[1] # n THEN "BadRequest"
             ELSE "none"
  IN  /\ NetStartable(k)
      /\ netRequest' = [netRequest EXCEPT ![k] = NetFail(r, err)]
      /\ networkNode' = IF err = "none" THEN networkNode \cup {row}
                        ELSE networkNode
      /\ UNCHANGED <<network, networkPartition>>

\* getNodeIdsInDma(partitionId), lines 411-459
DmaQuery(k, p) ==
  LET r == [netRequest[k] EXCEPT !.op = "nodesInDma", !.partition = p]
      found == {q \in networkPartition : q.id = p}
      q == CHOOSE q \in found : TRUE
      res == BfsRows(networkNode, << q.mainline >>, {}, << >>)
  IN  /\ NetStartable(k)
      /\ netRequest' = [netRequest EXCEPT ![k] =
           IF found = {} THEN NetFail(r, "NotFound")
           ELSE NetDone([r EXCEPT !.net = q.net, !.nodeIds = res.nodeIds,
                                  !.visits = res.visits])]
      /\ UNCHANGED <<network, networkNode, networkPartition>>

\* a reservoir and a junction joined by a pipe in each direction
LoopFile ==
  [kinds |-> << "RESERVOIR", "JUNCTION" >>, links |-> << <<1, 2>>, <<2, 1>> >>]

\* the .inp files imported in SpecNetwork: two junctions in a loop; a
\* junction with a self-loop listed before the pipe from the reservoir; a
\* reservoir that feeds a tank; a loop through a reservoir
SeedFiles ==
  { [kinds |-> << "JUNCTION", "JUNCTION" >>, links |-> << <<1, 2>>, <<2, 1>> >>],
    [kinds |-> << "RESERVOIR", "JUNCTION" >>, links |-> << <<2, 2>>, <<1, 2>> >>],
    [kinds |-> << "RESERVOIR", "TANK" >>, links |-> << <<1, 2>> >>],
    LoopFile }

\* the labels a create request may use: a label of the files and a new one
CreateLabels == {1, 3}

\* the parents a create request may name: none, a stored node, a missing one
CreateParents ==
  {NoParent, Pk(0, 1)} \cup {Pk(x.net, x.id) : x \in networkNode}

\* the partitions a request may name: the stored ones and a missing one
QueryPartitions == {<<0, 0>>} \cup {q.id : q \in networkPartition}

engineVars == <<matrixVars, faults, leakVars>>

\* the services after construction, with the .inp file the import requests
\* of the behaviour upload
InitNetwork ==
  \E f \in SeedFiles :
     InitWith([nets |-> {}, calls |-> NetCalls, faults |-> 0, file |-> f], {})

\* the services after construction, for every .inp file of the bounds
InitImport ==
  \E f \in Files :
     InitWith([nets |-> {}, calls |-> ImportCalls, faults |-> 0, file |-> f],
              {})

NextImport ==
  \/ \E k \in DOMAIN netRequest : ImportCall(k) /\ UNCHANGED engineVars
  \/ \E k \in DOMAIN netRequest : DmaStep(k) /\ UNCHANGED engineVars
  \/ \E k \in DOMAIN netRequest, p \in QueryPartitions :
        DmaQuery(k, p) /\ UNCHANGED engineVars

\* imports of every .inp file of the bounds, and DMA queries
SpecImport == InitImport /\ [][NextImport]_vars

NextNetwork ==
  \/ \E k \in DOMAIN netRequest : ImportCall(k) /\ UNCHANGED engineVars
  \/ \E k \in DOMAIN netRequest : DmaStep(k) /\ UNCHANGED engineVars
  \/ \E k \in DOMAIN netRequest, n \in network \cup {0} :
        CreateDmasCall(k, n) /\ UNCHANGED engineVars
  \/ \E k \in DOMAIN netRequest, n \in network \cup {0},
        label \in CreateLabels, type \in {"MAINLINE", "BRANCH"},
        parent \in CreateParents :
        CreateNode(k, n, label, type, parent) /\ UNCHANGED engineVars
  \/ \E k \in DOMAIN netRequest, p \in QueryPartitions :
        DmaQuery(k, p) /\ UNCHANGED engineVars

\* imports of one .inp file, node creations, DMA creation and DMA queries,
\* one request after the other
SpecNetwork == InitNetwork /\ [][NextNetwork]_vars

\* the network_nodes tables of SpecDma: the nodes 1..DmaNodes of network 1,
\* node 1 a mainline, with every assignment of parentId the foreign key of
\* the table admits (a row of the table, or null)
DmaTables ==
  {{[net |-> 1, id |-> i,
     type |-> IF i = 1 THEN "MAINLINE" ELSE "JUNCTION",
     parent |-> IF pf[i] = NoLabel THEN NoParent ELSE Pk(1, pf[i])] :
       i \in 1..DmaNodes} :
     pf \in [1..DmaNodes -> {NoLabel} \cup (1..DmaNodes)]}

\* the partition of mainline 1, created by createDmasForMainlines
DmaOfMainline ==
  [id |-> <<0, 1>>, net |-> 1, mainline |-> Pk(1, 1),
   partitionId |-> <<"DMA_", 1>>]

\* the services over a stored hierarchy
InitDma ==
  \E rows \in DmaTables :
     /\ MatrixIdle([nets |-> {}, calls |-> DmaCalls, faults |-> 0], {})
     /\ readings = {}
     /\ detections = << >>
     /\ request = [k \in 1..DmaCalls |-> IdleRequest]
     /\ network = {1}
     /\ networkNode = rows
     /\ networkPartition = {DmaOfMainline}
     /\ netRequest = [k \in 1..DmaCalls |-> IdleNetRequest]

NextDma ==
  \E k \in DOMAIN netRequest, p \in QueryPartitions :
     DmaQuery(k, p) /\ UNCHANGED engineVars

\* DMA queries over every parent relation of the bounds
SpecDma == InitDma /\ [][NextDma]_vars

----------------------------------------------------------------------------
(* Properties of the network hierarchy                                     *)

\* parentId of the row with primary key pk; NoParent when there is no row
ParentPk(rows, pk) ==
  LET found == {r \in rows : Pk(r.net, r.id) = pk}
  IN  IF found = {} THEN NoParent ELSE (CHOOSE r \in found : TRUE).parent

\* the n-th ancestor of pk
RECURSIVE Ancestor(_, _, _)
Ancestor(rows, pk, n) ==
  IF n = 0 \/ pk = NoParent THEN pk
  ELSE Ancestor(rows, ParentPk(rows, pk), n - 1)

\* the node is its own ancestor
OnCycle(rows, pk) ==
  \E n \in 1..Cardinality(rows) : Ancestor(rows, pk, n) = pk

C22_OnlyMainlinesAreRoots ==
  \A r \in networkNode :
     /\ r.parent = NoParent => r.type = "MAINLINE"
     /\ r.parent # NoParent =>
          \E x \in networkNode : Pk(x.net, x.id) = r.parent /\ x.net = r.net

\* the partitions stored for a mainline
PartitionsOf(parts, mainline) == {q \in parts : q.mainline = mainline}

\* the requests that run createDmasForMainlines
DmaOps == {"import", "dmas"}

\* C23: when a call of createDmasForMainlines returns, every MAINLINE node
\* of the network has exactly one partition, labelled DMA_<nodeId>; a call
\* that follows another call for the same network creates no partition and
\* returns an empty list; no mainline ever has two partitions.
C23_DmasIdempotent ==
  [][/\ \A k \in DOMAIN netRequest :
          (/\ netRequest[k].pc = "dmas" \/ netRequest[k].pc = "idle"
           /\ netRequest'[k].pc = "done"
           /\ netRequest'[k].op \in DmaOps)
          => \A r \in networkNode' :
                (r.net = netRequest'[k].net /\ r.type = "MAINLINE")
                => \E q \in networkPartition' :
                      /\ PartitionsOf(networkPartition', Pk(r.net, r.id)) = {q}
                      /\ q.partitionId = <<"DMA_", r.id>>
     /\ \A k \in DOMAIN netRequest :
          (/\ k > 1
           /\ netRequest'[k].op = "dmas"
           /\ netRequest'[k - 1].op \in DmaOps
           /\ netRequest'[k - 1].net = netRequest'[k].net)
          => /\ netRequest'[k].created = << >>
             /\ netRequest[k].pc = "dmas" => networkPartition' = networkPartition
     /\ \A p, q \in networkPartition' : p.mainline = q.mainline => p = q]_vars

\* an import has created the partitions of its mainlines, and the call of
\* createDmasForMainlines that followed it has returned an empty list
C23_Witness ==
  \E k \in DOMAIN netRequest :
     /\ k > 1
     /\ netRequest[k - 1].op = "import"
     /\ netRequest[k - 1].created # << >>
     /\ netRequest[k].op = "dmas"
     /\ netRequest[k].net = netRequest[k - 1].net
     /\ netRequest[k].pc = "done"
     /\ netRequest[k].created = << >>
     /\ \E r \in networkNode : r.net = netRequest[k].net /\ r.type = "MAINLINE"

\* the nodes below a mainline, the mainline included
Descendants(rows, mainline) ==
  {pk \in {Pk(r.net, r.id) : r \in rows} :
     \E n \in 0..Cardinality(rows) : Ancestor(rows, pk, n) = mainline}

\* C29: no node is its own ancestor; a query of the nodes of a DMA returns
\* the nodes below the mainline and has added each of them once.
C29_ParentRelationAcyclic ==
  /\ \A r \in networkNode : ~OnCycle(networkNode, Pk(r.net, r.id))
  /\ \A k \in DOMAIN netRequest :
        LET r == netRequest[k]
        IN  (/\ r.op = "nodesInDma" /\ r.pc = "done" /\ r.err = "none"
             /\ \A j \in DOMAIN netRequest : j > k => netRequest[j].pc = "idle")
            => /\ Len(r.visits) = Cardinality(r.nodeIds)
               /\ Range(r.visits) = r.nodeIds
               /\ \E q \in networkPartition :
                     /\ q.id = r.partition
                     /\ r.nodeIds = Descendants(networkNode, q.mainline)

\* the file whose pipes form a loop has been imported, a node has been
\* created below its junction, and the query of its DMA has returned the
\* three nodes
C29_Witness ==
  /\ scope.file = LoopFile
  /\ \E k \in DOMAIN netRequest :
        /\ netRequest[k].op = "nodesInDma"
        /\ netRequest[k].pc = "done"
        /\ Len(netRequest[k].visits) = 3

====
